------------------------------- MODULE MMProofs -------------------------------
(***************************************************************************)
(* Proofs about the malloc package, for every size of the heap, of its     *)
(* steps and of the prepared chunk, every bound of the bins, every number  *)
(* of blocks and every set of sizes.                                       *)
(*                                                                         *)
(* The inductive invariant, IInv, says that a heap is made of a set C of   *)
(* chunks and of five lists L (Sound), and that the chunks in use are the  *)
(* blocks of the user, filled as it filled them (Placed).  The lemmas go   *)
(* from what a write does to words, over links, lists, splitting, merging  *)
(* and the top chunk, to mm_malloc, mm_free and mm_realloc; the last part  *)
(* is about the states of the specification.                               *)
(***************************************************************************)
EXTENDS MM, FiniteSetTheorems, SequenceTheorems, WellFoundedInduction, TLAPS

\* Where a word can be that a list's fd pointer or a prev_size is read from
Slots == Cells \cup Bins

Heaps == [m : [Words -> Int], top : Int, brk : Int]

HeapEnd == mem_heap_lo + MAX_HEAP

\* The constants, as the proofs use them.
LEMMA Constants ==
  /\ MAX_HEAP \in Nat /\ MAX_HEAP % 8 = 0
  /\ TOP_ALIGNMENT \in Nat /\ TOP_ALIGNMENT > 0 /\ TOP_ALIGNMENT % 8 = 0
  /\ PREPARED_SIZE \in Nat /\ PREPARED_SIZE >= 16 /\ PREPARED_SIZE % 8 = 0
  /\ TOP_ALIGNMENT <= MAX_HEAP
  /\ HeapEnd \in Nat /\ HeapEnd = 40 + MAX_HEAP /\ mem_heap_lo = 40
  /\ \A n \in Requests : n \in Nat /\ n % 4 = 0 /\ n >= 8
BY AlignmentAssumption, RoomAssumption, RequestsAssumption DEF HeapEnd, mem_heap_lo

\* The cells are the multiples of 8 in the heap.
LEMMA CellNumbers ==
  /\ \A a \in Cells : a \in Nat /\ a % 8 = 0 /\ 40 <= a /\ a < HeapEnd /\ a + 8 <= HeapEnd
  /\ \A a \in Int : a % 8 = 0 /\ 40 <= a /\ a < HeapEnd => a \in Cells
<1>1. ASSUME NEW a \in Cells
      PROVE  a \in Nat /\ a % 8 = 0 /\ 40 <= a /\ a < HeapEnd /\ a + 8 <= HeapEnd
  <2>1. PICK k \in 0 .. MAX_HEAP \div 8 - 1 : a = mem_heap_lo + 8 * k
    BY DEF Cells
  <2> QED
    BY <2>1, Constants
<1>2. ASSUME NEW a \in Int, a % 8 = 0, 40 <= a, a < HeapEnd
      PROVE  a \in Cells
  <2> DEFINE k == (a - 40) \div 8
  <2>1. k \in 0 .. MAX_HEAP \div 8 - 1 /\ a = mem_heap_lo + 8 * k
    BY <1>2, Constants
  <2> QED
    BY <2>1 DEF Cells
<1> QED
  BY <1>1, <1>2

\* The words of a cell.
LEMMA CellWords ==
  /\ \A x \in Slots : x \in Nat /\ word(x) \in Words /\ 4 * word(x) = x
  /\ \A a \in Cells : /\ word(a) \in Words /\ word(a) + 1 \in Words
                      /\ word(a) >= 10 /\ 4 * word(a) = a /\ word(a) % 2 = 0
  /\ Words \subseteq Nat
<1>1. ASSUME NEW a \in Cells
      PROVE  /\ word(a) \in Words /\ word(a) + 1 \in Words
             /\ word(a) >= 10 /\ 4 * word(a) = a /\ word(a) % 2 = 0
  BY CellNumbers, Constants DEF word, Words
<1>2. ASSUME NEW x \in Bins
      PROVE  x \in Nat /\ word(x) \in Words /\ 4 * word(x) = x
  BY Constants DEF word, Words, Bins, UNSORTED, SMALL, MIDDLE, LARGE, HUGE
<1>3. Words \subseteq Nat
  BY Constants DEF Words
<1> QED
  BY <1>1, <1>2, <1>3, CellNumbers DEF Slots

\* The pointers of a chunk are the words of the cell after its header.
LEMMA Pointers ==
  ASSUME NEW p \in Int, p % 4 = 0
  PROVE  /\ \A h : fd(h, p) = prev_size(h, p + 8) /\ bk(h, p) = size(h, p + 8)
         /\ \A h, v : set_fd(h, p, v) = set_prev_size(h, p + 8, v)
         /\ \A h, v : set_bk(h, p, v) = set_size(h, p + 8, v)
<1>1. word(p) + 2 = word(p + 8) /\ word(p) + 3 = word(p + 8) + 1
  BY DEF word
<1> QED
  BY <1>1 DEF fd, bk, set_fd, set_bk, prev_size, size, set_prev_size, set_size

\* The head of a list is the first word of its bin (mm.c:149).
LEMMA BinHead == \A h, b : bin_head(h, b) = prev_size(h, b)
BY DEF bin_head, prev_size

\* What a write to a heap's memory leaves alone
SameBounds(g, h) == g \in Heaps /\ g.top = h.top /\ g.brk = h.brk

\* A write to the first word of a cell or to a bin.
LEMMA WriteFirst ==
  ASSUME NEW h \in Heaps, NEW x \in Slots, NEW v \in Int, NEW g, g = set_prev_size(h, x, v)
  PROVE  /\ SameBounds(g, h)
         /\ \A y \in Slots : prev_size(g, y) = IF y = x THEN v ELSE prev_size(h, y)
         /\ \A a \in Cells : size(g, a) = size(h, a)
<1>1. g = [h EXCEPT !.m = [h.m EXCEPT ![word(x)] = v]]
  BY DEF set_prev_size
<1>2. g.m = [h.m EXCEPT ![word(x)] = v] /\ g.top = h.top /\ g.brk = h.brk
  BY <1>1 DEF Heaps
<1>3. h.m \in [Words -> Int] /\ word(x) \in Words
  BY CellWords DEF Heaps
<1>4. g.m \in [Words -> Int]
  BY <1>2, <1>3
<1>5. SameBounds(g, h)
  BY <1>1, <1>2, <1>4 DEF SameBounds, Heaps
<1>6. ASSUME NEW y \in Slots
      PROVE  prev_size(g, y) = IF y = x THEN v ELSE prev_size(h, y)
  <2>1. y # x => word(y) # word(x)
    BY CellWords
  <2>2. word(y) \in Words
    BY CellWords
  <2> QED
    BY <1>2, <1>3, <2>1, <2>2 DEF prev_size
<1>7. ASSUME NEW a \in Cells
      PROVE  size(g, a) = size(h, a)
  <2>1. word(a) + 1 \in Words /\ word(a) + 1 # word(x)
    <3>1. CASE x \in Cells
      BY <3>1, CellWords, CellNumbers DEF word
    <3>2. CASE x \in Bins
      BY <3>2, CellWords, CellNumbers DEF word, Bins, UNSORTED, SMALL, MIDDLE, LARGE, HUGE
    <3> QED
      BY <3>1, <3>2 DEF Slots
  <2> QED
    BY <1>2, <1>3, <2>1 DEF size
<1> QED
  BY <1>5, <1>6, <1>7

\* A write to the second word of a cell.
LEMMA WriteSecond ==
  ASSUME NEW h \in Heaps, NEW c \in Cells, NEW v \in Int, NEW g, g = set_size(h, c, v)
  PROVE  /\ SameBounds(g, h)
         /\ \A y \in Slots : prev_size(g, y) = prev_size(h, y)
         /\ \A a \in Cells : size(g, a) = IF a = c THEN v ELSE size(h, a)
<1>1. g = [h EXCEPT !.m = [h.m EXCEPT ![word(c) + 1] = v]]
  BY DEF set_size
<1>2. g.m = [h.m EXCEPT ![word(c) + 1] = v] /\ g.top = h.top /\ g.brk = h.brk
  BY <1>1 DEF Heaps
<1>3. h.m \in [Words -> Int] /\ word(c) + 1 \in Words
  BY CellWords DEF Heaps
<1>4. g.m \in [Words -> Int]
  BY <1>2, <1>3
<1>5. SameBounds(g, h)
  BY <1>1, <1>2, <1>4 DEF SameBounds, Heaps
<1>6. ASSUME NEW y \in Slots
      PROVE  prev_size(g, y) = prev_size(h, y)
  <2>1. word(y) \in Words /\ word(c) + 1 # word(y)
    <3>1. CASE y \in Cells
      BY <3>1, CellWords, CellNumbers DEF word
    <3>2. CASE y \in Bins
      BY <3>2, CellWords, CellNumbers DEF word, Bins, UNSORTED, SMALL, MIDDLE, LARGE, HUGE
    <3> QED
      BY <3>1, <3>2 DEF Slots
  <2>2. PICK k : k = word(c) + 1
    OBVIOUS
  <2>3. g.m[word(y)] = h.m[word(y)]
    BY <1>2, <1>3, <2>1, <2>2
  <2> QED
    BY <2>3 DEF prev_size
<1>7. ASSUME NEW a \in Cells
      PROVE  size(g, a) = IF a = c THEN v ELSE size(h, a)
  <2>1. a # c => word(a) + 1 # word(c) + 1
    BY CellNumbers DEF word
  <2>2. word(a) + 1 \in Words
    BY CellWords
  <2> QED
    BY <1>2, <1>3, <2>1, <2>2 DEF size
<1> QED
  BY <1>5, <1>6, <1>7

\* What is read is a number.
LEMMA Reads ==
  ASSUME NEW h \in Heaps
  PROVE  /\ \A x \in Slots : prev_size(h, x) \in Int
         /\ \A a \in Cells : size(h, a) \in Int
BY CellWords DEF Heaps, prev_size, size

-----------------------------------------------------------------------------
(* Headers. *)

Size(z) == z - (z % 8)
Valid(z) == z % 2 = 1
PrevInuse(z) == (z \div 2) % 2 = 1

\* The flags are the low bits of the size, the rest is a multiple of 8.
LEMMA Digits ==
  ASSUME NEW k \in Int, NEW f \in 0 .. 7, NEW z, z = 8 * k + f
  PROVE  /\ z \in Int /\ z % 8 = f /\ Size(z) = 8 * k /\ Size(z) % 8 = 0
         /\ Valid(z) <=> f \in {1, 3, 5, 7}
         /\ PrevInuse(z) <=> f \in {2, 3, 6, 7}
<1>1. z \in Int /\ z % 8 = f /\ (8 * k) % 8 = 0
  OBVIOUS
<1>2. Size(z) = 8 * k
  BY <1>1 DEF Size
<1>3. Valid(z) <=> f \in {1, 3, 5, 7}
  BY DEF Valid
<1>4. PrevInuse(z) <=> f \in {2, 3, 6, 7}
  BY DEF PrevInuse
<1> QED
  BY <1>1, <1>2, <1>3, <1>4

\* A size and its two flags are read from one number.
LEMMA Decode ==
  ASSUME NEW z \in Int, NEW n \in Int, n % 8 = 0
  PROVE  /\ Size(z) \in Int /\ Size(z) % 8 = 0
         /\ ~ Valid(z) => /\ Valid(z + 1) /\ Size(z + 1) = Size(z)
                          /\ PrevInuse(z + 1) <=> PrevInuse(z)
         /\ Valid(z) => /\ ~ Valid(z - 1) /\ Size(z - 1) = Size(z)
                        /\ PrevInuse(z - 1) <=> PrevInuse(z)
         /\ ~ PrevInuse(z) => /\ PrevInuse(z + 2) /\ Size(z + 2) = Size(z)
                              /\ Valid(z + 2) <=> Valid(z)
         /\ PrevInuse(z) => /\ ~ PrevInuse(z - 2) /\ Size(z - 2) = Size(z)
                            /\ Valid(z - 2) <=> Valid(z)
         /\ Size(z + n) = Size(z) + n
         /\ Valid(z + n) <=> Valid(z)
         /\ PrevInuse(z + n) <=> PrevInuse(z)
         /\ Size(n + (z % 8)) = n
         /\ Valid(n + (z % 8)) <=> Valid(z)
         /\ PrevInuse(n + (z % 8)) <=> PrevInuse(z)
         /\ Size(n) = n /\ ~ Valid(n) /\ ~ PrevInuse(n)
<1> DEFINE k == z \div 8
           f == z % 8
           j == n \div 8
<1>1. k \in Int /\ f \in 0 .. 7 /\ j \in Int /\ z = 8 * k + f /\ n = 8 * j
  OBVIOUS
<1> HIDE DEF k, j
<1>2. \A i \in Int : \A d \in 0 .. 7 :
        /\ (8 * i + d) % 8 = d /\ Size(8 * i + d) = 8 * i /\ Size(8 * i + d) % 8 = 0
        /\ Valid(8 * i + d) <=> d \in {1, 3, 5, 7}
        /\ PrevInuse(8 * i + d) <=> d \in {2, 3, 6, 7}
  BY Digits
<1>3. f = z % 8
  OBVIOUS
<1> HIDE DEF f
<1>4. /\ Size(z) \in Int /\ Size(z) % 8 = 0 /\ Size(z) = 8 * k
      /\ Valid(z) <=> f \in {1, 3, 5, 7}
      /\ PrevInuse(z) <=> f \in {2, 3, 6, 7}
  BY <1>1, <1>2
<1>5. ASSUME NEW d \in 0 .. 7, NEW e \in {-2, -1, 1, 2}, d = f + e
      PROVE  /\ Size(z + e) = Size(z)
             /\ Valid(z + e) <=> d \in {1, 3, 5, 7}
             /\ PrevInuse(z + e) <=> d \in {2, 3, 6, 7}
  <2>1. z + e = 8 * k + d
    BY <1>1, <1>5
  <2> QED
    BY <1>1, <1>2, <1>4, <2>1
<1>6. /\ Size(z + n) = Size(z) + n
      /\ Valid(z + n) <=> Valid(z)
      /\ PrevInuse(z + n) <=> PrevInuse(z)
  <2>1. z + n = 8 * (k + j) + f /\ k + j \in Int /\ 8 * (k + j) = 8 * k + n
    BY <1>1
  <2> QED
    BY <1>1, <1>2, <1>4, <2>1
<1>7. /\ Size(n + f) = n
      /\ Valid(n + f) <=> Valid(z)
      /\ PrevInuse(n + f) <=> PrevInuse(z)
  BY <1>1, <1>2, <1>4
<1>8. Size(n) = n /\ ~ Valid(n) /\ ~ PrevInuse(n)
  <2>1. n = 8 * j + 0 /\ 0 \in 0 .. 7
    BY <1>1
  <2> QED
    BY <1>1, <1>2, <2>1
<1>9. ~ Valid(z) => /\ Valid(z + 1) /\ Size(z + 1) = Size(z)
                    /\ PrevInuse(z + 1) <=> PrevInuse(z)
  <2> SUFFICES ASSUME ~ Valid(z) PROVE /\ Valid(z + 1) /\ Size(z + 1) = Size(z)
                                       /\ PrevInuse(z + 1) <=> PrevInuse(z)
    OBVIOUS
  <2>1. f \in {0, 2, 4, 6}
    BY <1>1, <1>4
  <2> QED
    BY <1>4, <1>5, <2>1
<1>10. Valid(z) => /\ ~ Valid(z - 1) /\ Size(z - 1) = Size(z)
                   /\ PrevInuse(z - 1) <=> PrevInuse(z)
  <2> SUFFICES ASSUME Valid(z) PROVE /\ ~ Valid(z - 1) /\ Size(z - 1) = Size(z)
                                     /\ PrevInuse(z - 1) <=> PrevInuse(z)
    OBVIOUS
  <2>1. f \in {1, 3, 5, 7} /\ z - 1 = z + (-1)
    BY <1>4
  <2> QED
    BY <1>4, <1>5, <2>1
<1>11. ~ PrevInuse(z) => /\ PrevInuse(z + 2) /\ Size(z + 2) = Size(z)
                         /\ Valid(z + 2) <=> Valid(z)
  <2> SUFFICES ASSUME ~ PrevInuse(z) PROVE /\ PrevInuse(z + 2) /\ Size(z + 2) = Size(z)
                                           /\ Valid(z + 2) <=> Valid(z)
    OBVIOUS
  <2>1. f \in {0, 1, 4, 5}
    BY <1>1, <1>4
  <2> QED
    BY <1>4, <1>5, <2>1
<1>12. PrevInuse(z) => /\ ~ PrevInuse(z - 2) /\ Size(z - 2) = Size(z)
                       /\ Valid(z - 2) <=> Valid(z)
  <2> SUFFICES ASSUME PrevInuse(z) PROVE /\ ~ PrevInuse(z - 2) /\ Size(z - 2) = Size(z)
                                         /\ Valid(z - 2) <=> Valid(z)
    OBVIOUS
  <2>1. f \in {2, 3, 6, 7} /\ z - 2 = z + (-2)
    BY <1>4
  <2> QED
    BY <1>4, <1>5, <2>1
<1> QED
  BY <1>3, <1>4, <1>6, <1>7, <1>8, <1>9, <1>10, <1>11, <1>12

\* The fields of a header
LEMMA Fields == \A h, a : /\ chunksize(h, a) = Size(size(h, a))
                          /\ is_valid(h, a) <=> Valid(size(h, a))
                          /\ prev_inuse(h, a) <=> PrevInuse(size(h, a))
                          /\ flags(h, a) = size(h, a) % 8
BY DEF chunksize, is_valid, prev_inuse, flags, Size, Valid, PrevInuse

\* Equal words are equal headers.
LEMMA SameHeader ==
  \A h, g, a : size(g, a) = size(h, a) => /\ chunksize(g, a) = chunksize(h, a)
                                          /\ is_valid(g, a) <=> is_valid(h, a)
                                          /\ prev_inuse(g, a) <=> prev_inuse(h, a)
                                          /\ flags(g, a) = flags(h, a)
BY Fields

\* The size of a chunk is a multiple of 8, whatever its header holds.
LEMMA Headers ==
  ASSUME NEW h \in Heaps, NEW a \in Cells
  PROVE  chunksize(h, a) \in Int /\ chunksize(h, a) % 8 = 0
BY Reads, Decode, Fields, 0 % 8 = 0

\* g differs from h in the header of c, which is for a chunk of n bytes
Header(g, h, c, n) ==
  /\ SameBounds(g, h)
  /\ \A y \in Slots : prev_size(g, y) = prev_size(h, y)
  /\ \A a \in Cells : a # c => size(g, a) = size(h, a)
  /\ chunksize(g, c) = n

\* A write to the size of a chunk changes its header only.
LEMMA SizeWritten ==
  ASSUME NEW h \in Heaps, NEW c \in Cells, NEW v \in Int, NEW g, g = set_size(h, c, v)
  PROVE  Header(g, h, c, Size(v)) /\ size(g, c) = v
<1>1. /\ SameBounds(g, h)
      /\ \A y \in Slots : prev_size(g, y) = prev_size(h, y)
      /\ \A a \in Cells : size(g, a) = IF a = c THEN v ELSE size(h, a)
  BY WriteSecond
<1>2. size(g, c) = v
  BY <1>1
<1> QED
  BY <1>1, <1>2, Fields DEF Header

\* VALID is set, and the size and PREV_INUSE stay.
LEMMA SetValid ==
  ASSUME NEW h \in Heaps, NEW c \in Cells, NEW g, g = set_valid(h, c)
  PROVE  /\ Header(g, h, c, chunksize(h, c))
         /\ is_valid(g, c)
         /\ prev_inuse(g, c) <=> prev_inuse(h, c)
<1>1. size(h, c) \in Int
  BY Reads
<1>2. CASE is_valid(h, c)
  BY <1>2 DEF set_valid, Header, SameBounds
<1>3. CASE ~ is_valid(h, c)
  <2>1. g = set_size(h, c, size(h, c) + 1) /\ ~ Valid(size(h, c))
    BY <1>3, Fields DEF set_valid
  <2>2. Header(g, h, c, Size(size(h, c) + 1)) /\ size(g, c) = size(h, c) + 1
    BY <1>1, <2>1, SizeWritten
  <2>3. Valid(size(h, c) + 1) /\ Size(size(h, c) + 1) = Size(size(h, c)) /\ (PrevInuse(size(h, c) + 1) <=> PrevInuse(size(h, c)))
    BY <1>1, <2>1, Decode, 0 \in Int, 0 % 8 = 0
  <2> QED
    BY <2>2, <2>3, Fields
<1> QED
  BY <1>2, <1>3

\* VALID is cleared, and the size and PREV_INUSE stay.
LEMMA ClearValid ==
  ASSUME NEW h \in Heaps, NEW c \in Cells, NEW g, g = clear_valid(h, c)
  PROVE  /\ Header(g, h, c, chunksize(h, c))
         /\ ~ is_valid(g, c)
         /\ prev_inuse(g, c) <=> prev_inuse(h, c)
<1>1. size(h, c) \in Int
  BY Reads
<1>2. CASE ~ is_valid(h, c)
  BY <1>2 DEF clear_valid, Header, SameBounds
<1>3. CASE is_valid(h, c)
  <2>1. g = set_size(h, c, size(h, c) - 1) /\ Valid(size(h, c))
    BY <1>3, Fields DEF clear_valid
  <2>2. Header(g, h, c, Size(size(h, c) - 1)) /\ size(g, c) = size(h, c) - 1
    BY <1>1, <2>1, SizeWritten
  <2>3. ~ Valid(size(h, c) - 1) /\ Size(size(h, c) - 1) = Size(size(h, c)) /\ (PrevInuse(size(h, c) - 1) <=> PrevInuse(size(h, c)))
    BY <1>1, <2>1, Decode, 0 \in Int, 0 % 8 = 0
  <2> QED
    BY <2>2, <2>3, Fields
<1> QED
  BY <1>2, <1>3

\* PREV_INUSE is set, and the size and VALID stay.
LEMMA SetPrevInuse ==
  ASSUME NEW h \in Heaps, NEW c \in Cells, NEW g, g = set_prev_inuse(h, c)
  PROVE  /\ Header(g, h, c, chunksize(h, c))
         /\ is_valid(g, c) <=> is_valid(h, c)
         /\ prev_inuse(g, c)
<1>1. size(h, c) \in Int
  BY Reads
<1>2. CASE prev_inuse(h, c)
  BY <1>2 DEF set_prev_inuse, Header, SameBounds
<1>3. CASE ~ prev_inuse(h, c)
  <2>1. g = set_size(h, c, size(h, c) + 2) /\ ~ PrevInuse(size(h, c))
    BY <1>3, Fields DEF set_prev_inuse
  <2>2. Header(g, h, c, Size(size(h, c) + 2)) /\ size(g, c) = size(h, c) + 2
    BY <1>1, <2>1, SizeWritten
  <2>3. PrevInuse(size(h, c) + 2) /\ Size(size(h, c) + 2) = Size(size(h, c)) /\ (Valid(size(h, c) + 2) <=> Valid(size(h, c)))
    BY <1>1, <2>1, Decode, 0 \in Int, 0 % 8 = 0
  <2> QED
    BY <2>2, <2>3, Fields
<1> QED
  BY <1>2, <1>3

\* PREV_INUSE is cleared, and the size and VALID stay.
LEMMA ClearPrevInuse ==
  ASSUME NEW h \in Heaps, NEW c \in Cells, NEW g, g = clear_prev_inuse(h, c)
  PROVE  /\ Header(g, h, c, chunksize(h, c))
         /\ is_valid(g, c) <=> is_valid(h, c)
         /\ ~ prev_inuse(g, c)
<1>1. size(h, c) \in Int
  BY Reads
<1>2. CASE ~ prev_inuse(h, c)
  BY <1>2 DEF clear_prev_inuse, Header, SameBounds
<1>3. CASE prev_inuse(h, c)
  <2>1. g = set_size(h, c, size(h, c) - 2) /\ PrevInuse(size(h, c))
    BY <1>3, Fields DEF clear_prev_inuse
  <2>2. Header(g, h, c, Size(size(h, c) - 2)) /\ size(g, c) = size(h, c) - 2
    BY <1>1, <2>1, SizeWritten
  <2>3. ~ PrevInuse(size(h, c) - 2) /\ Size(size(h, c) - 2) = Size(size(h, c)) /\ (Valid(size(h, c) - 2) <=> Valid(size(h, c)))
    BY <1>1, <2>1, Decode, 0 \in Int, 0 % 8 = 0
  <2> QED
    BY <2>2, <2>3, Fields
<1> QED
  BY <1>2, <1>3

\* A size that grows or is given anew keeps the flags.
LEMMA SizeGrown ==
  ASSUME NEW h \in Heaps, NEW c \in Cells, NEW n \in Int, n % 8 = 0,
         NEW g, g = set_size(h, c, size(h, c) + n)
  PROVE  /\ Header(g, h, c, chunksize(h, c) + n)
         /\ is_valid(g, c) <=> is_valid(h, c)
         /\ prev_inuse(g, c) <=> prev_inuse(h, c)
<1>1. size(h, c) \in Int
  BY Reads
<1>2. Header(g, h, c, Size(size(h, c) + n)) /\ size(g, c) = size(h, c) + n
  BY <1>1, SizeWritten, Fields
<1>3. /\ Size(size(h, c) + n) = Size(size(h, c)) + n
      /\ Valid(size(h, c) + n) <=> Valid(size(h, c))
      /\ PrevInuse(size(h, c) + n) <=> PrevInuse(size(h, c))
  <2>1. PICK z \in Int : z = size(h, c)
    BY <1>1
  <2>2. Size(z + n) = Size(z) + n
    BY Decode, ZenonT(30)
  <2>3. Valid(z + n) <=> Valid(z)
    BY Decode, ZenonT(30)
  <2>4. PrevInuse(z + n) <=> PrevInuse(z)
    BY Decode, ZenonT(30)
  <2> QED
    BY <2>1, <2>2, <2>3, <2>4
<1> QED
  BY <1>2, <1>3, Fields

\* The first part of a split chunk keeps the flags (mm.c:317).
LEMMA SizeCut ==
  ASSUME NEW h \in Heaps, NEW c \in Cells, NEW n \in Int, n % 8 = 0,
         NEW g, g = set_size(h, c, n + flags(h, c))
  PROVE  /\ Header(g, h, c, n)
         /\ is_valid(g, c) <=> is_valid(h, c)
         /\ prev_inuse(g, c) <=> prev_inuse(h, c)
<1>1. size(h, c) \in Int
  BY Reads
<1>2. PICK v \in Int : v = n + (size(h, c) % 8)
  BY <1>1
<1>3. g = set_size(h, c, v)
  BY <1>2, Fields
<1>4. Header(g, h, c, Size(v)) /\ size(g, c) = v
  BY <1>3, SizeWritten
<1>5. Size(v) = n /\ (Valid(v) <=> Valid(size(h, c))) /\ (PrevInuse(v) <=> PrevInuse(size(h, c)))
  <2>1. PICK z \in Int : z = size(h, c)
    BY <1>1
  <2>2. /\ Size(n + (z % 8)) = n
        /\ Valid(n + (z % 8)) <=> Valid(z)
        /\ PrevInuse(n + (z % 8)) <=> PrevInuse(z)
    <3>1. Size(n + (z % 8)) = n
      BY Decode, ZenonT(30)
    <3>2. Valid(n + (z % 8)) <=> Valid(z)
      BY Decode, ZenonT(30)
    <3>3. PrevInuse(n + (z % 8)) <=> PrevInuse(z)
      BY Decode, ZenonT(30)
    <3> QED
      BY <3>1, <3>2, <3>3
  <2> QED
    BY <1>2, <2>1, <2>2, Zenon
<1> QED
  BY <1>4, <1>5, Fields

\* The remainder of a split chunk has no flags yet.
LEMMA SizeMade ==
  ASSUME NEW h \in Heaps, NEW c \in Cells, NEW n \in Int, n % 8 = 0,
         NEW g, g = set_size(h, c, n)
  PROVE  Header(g, h, c, n) /\ ~ is_valid(g, c) /\ ~ prev_inuse(g, c)
<1>1. Header(g, h, c, Size(n)) /\ size(g, c) = n
  BY SizeWritten
<1>2. Size(n) = n /\ ~ Valid(n) /\ ~ PrevInuse(n)
  BY Decode
<1> QED
  BY <1>1, <1>2, Fields

-----------------------------------------------------------------------------
(* What a heap is made of: the set C of its chunks, of which t is the top, *)
(* and the lists L of the bins.                                            *)

\* The chunks are the heap, end to end
Shape(h, C, t) ==
  /\ h \in Heaps /\ h.brk % 8 = 0 /\ h.brk <= HeapEnd
  /\ C \subseteq Cells /\ mem_heap_lo \in C /\ t \in C
  /\ \A p \in C : /\ chunksize(h, p) >= 8
                  /\ p + chunksize(h, p) <= h.brk
                  /\ IF p = t THEN p + chunksize(h, p) = h.brk ELSE p + chunksize(h, p) \in C
  /\ \A p, q \in C : p < q => p + chunksize(h, p) <= q
  /\ \A p \in C : p # mem_heap_lo => \E q \in C : q + chunksize(h, q) = p
  /\ prev_inuse(h, mem_heap_lo)

\* What a chunk tells of the one before it, but for those after one of X
Tagged(h, C, t, X) ==
  \A p \in C : p # t /\ p \notin X =>
    /\ prev_inuse(h, p + chunksize(h, p)) <=> is_valid(h, p)
    /\ ~ is_valid(h, p) => prev_size(h, p + chunksize(h, p)) = chunksize(h, p)

\* The k-th chunk of the list of a bin, the bin's own header for 0
Node(b, l, k) == IF k = 0 THEN b - 8 ELSE l[k]

List(h, b, l) ==
  /\ l \in Seq(Cells)
  /\ \A k \in 1 .. Len(l) : l[k] + 8 \in Cells /\ size(h, l[k] + 8) = Node(b, l, k - 1)
  /\ \A k \in 0 .. Len(l) : prev_size(h, Node(b, l, k) + 8) = IF k = Len(l) THEN NULL ELSE l[k + 1]
  /\ b # UNSORTED => \A k \in 2 .. Len(l) : chunksize(h, l[k - 1]) <= chunksize(h, l[k])

\* No chunk is in two places
Once(L) == \A b, c \in Bins : \A j \in 1 .. Len(L[b]), k \in 1 .. Len(L[c]) :
             L[b][j] = L[c][k] => b = c /\ j = k

Lists(h, L) == L = [b \in Bins |-> L[b]] /\ (\A b \in Bins : List(h, b, L[b])) /\ Once(L)

Listed(L) == {p \in Cells : \E b \in Bins : \E k \in 1 .. Len(L[b]) : L[b][k] = p}

\* The free chunks are those in the bins, but for those of limbo
FreeListed(h, C, t, L, limbo) ==
  /\ Listed(L) = {p \in C : p # t /\ ~ is_valid(h, p)} \ limbo
  /\ \A p \in Listed(L) : chunksize(h, p) >= 16

Sound(h, C, t, L) == /\ Shape(h, C, t) /\ h.top = t /\ ~ is_valid(h, t)
                     /\ Tagged(h, C, t, {})
                     /\ Lists(h, L) /\ FreeListed(h, C, t, L, {})

\* What the user wrote to the chunk q of h is in g
Kept(g, h, q) ==
  \A a \in Cells : /\ q < a /\ a < q + chunksize(h, q) => size(g, a) = size(h, a)
                   /\ q < a /\ a <= q + chunksize(h, q) => prev_size(g, a) = prev_size(h, a)

\* The chunks in use are the same, and keep their data, but for those of E
Keeps(g, D, h, C, E) ==
  /\ \A q \in C \ E : is_valid(h, q) =>
       q \in D /\ is_valid(g, q) /\ chunksize(g, q) = chunksize(h, q) /\ Kept(g, h, q)
  /\ \A q \in D \ E : is_valid(g, q) => q \in C /\ is_valid(h, q)

\* What two routines keep, one after the other does.
LEMMA KeepsAgain ==
  ASSUME NEW f, NEW B, NEW g, NEW D, NEW h, NEW C, NEW E,
         Keeps(g, D, h, C, E), Keeps(f, B, g, D, E)
  PROVE  Keeps(f, B, h, C, E)
BY DEF Keeps, Kept

\* What is kept but for some chunks is kept but for more.
LEMMA KeepsMore ==
  ASSUME NEW g, NEW D, NEW h, NEW C, NEW E, NEW F, Keeps(g, D, h, C, E), E \subseteq F
  PROVE  Keeps(g, D, h, C, F)
BY DEF Keeps

\* A heap keeps its own data.
LEMMA KeepsItself == \A h, C, E : Keeps(h, C, h, C, E)
BY DEF Keeps, Kept

-----------------------------------------------------------------------------
(* Neighbours. *)

\* Where a chunk is, how large it is, and what comes after it.
LEMMA Chunk ==
  ASSUME NEW h, NEW C, NEW t, Shape(h, C, t), NEW p \in C
  PROVE  /\ p \in Cells /\ p \in Nat /\ p % 8 = 0 /\ 40 <= p /\ p + 8 <= HeapEnd
         /\ chunksize(h, p) \in Int /\ chunksize(h, p) % 8 = 0 /\ chunksize(h, p) >= 8
         /\ p + chunksize(h, p) <= h.brk /\ h.brk \in Int /\ h.brk <= HeapEnd
         /\ p # t => p + chunksize(h, p) \in C /\ p < t
         /\ \A q \in C : p < q => p + chunksize(h, p) <= q
<1>1. h \in Heaps /\ h.brk \in Int /\ p \in Cells /\ t \in Cells /\ t \in C
  BY DEF Shape, Heaps
<1>2. chunksize(h, p) \in Int /\ chunksize(h, p) % 8 = 0 /\ chunksize(h, t) \in Int
  BY <1>1, Headers
<1>3. /\ chunksize(h, p) >= 8
      /\ p + chunksize(h, p) <= h.brk /\ h.brk <= HeapEnd
      /\ p # t => p + chunksize(h, p) \in C
      /\ t + chunksize(h, t) = h.brk
      /\ \A q \in C : p < q => p + chunksize(h, p) <= q
      /\ t < p => t + chunksize(h, t) <= p
  BY <1>1 DEF Shape
<1>4. p \in Nat /\ p % 8 = 0 /\ 40 <= p /\ p + 8 <= HeapEnd /\ t \in Nat
  BY <1>1, CellNumbers
<1> QED
  BY <1>1, <1>2, <1>3, <1>4

\* Between a chunk and the next there is no other.
LEMMA Inside ==
  ASSUME NEW h, NEW C, NEW t, Shape(h, C, t), NEW p \in C, NEW a \in Cells,
         p < a, a < p + chunksize(h, p)
  PROVE  /\ a \notin C
         /\ \A q \in C : q # p => ~ (q <= a /\ a <= q + chunksize(h, q))
<1>1. p \in Nat /\ a \in Nat /\ chunksize(h, p) \in Int
  BY Chunk, CellNumbers
<1>2. ASSUME NEW q \in C, q # p, q <= a, a <= q + chunksize(h, q)
      PROVE  FALSE
  <2>1. q \in Nat /\ chunksize(h, q) \in Int
    BY Chunk
  <2>2. q < p => q + chunksize(h, q) <= p
    BY Chunk
  <2>3. p < q => p + chunksize(h, p) <= q
    BY Chunk
  <2> QED
    BY <1>1, <1>2, <2>1, <2>2, <2>3
<1>3. a \notin C
  <2>1. SUFFICES ASSUME a \in C PROVE FALSE
    OBVIOUS
  <2>2. p + chunksize(h, p) <= a
    BY <2>1, Chunk
  <2> QED
    BY <1>1, <2>2
<1> QED
  BY <1>2, <1>3

-----------------------------------------------------------------------------
(* Writes inside free chunks. *)

\* Only links of the chunks in A, and bins, are written
Inner(g, h, A) ==
  /\ SameBounds(g, h)
  /\ \A a \in Cells : a \notin {p + 8 : p \in A} =>
       size(g, a) = size(h, a) /\ prev_size(g, a) = prev_size(h, a)

\* Writes to links leave the headers of the chunks alone.
LEMMA InnerHeaders ==
  ASSUME NEW h, NEW C, NEW t, Shape(h, C, t), NEW g, NEW A \in SUBSET C, Inner(g, h, A),
         \A p \in A : chunksize(h, p) >= 16
  PROVE  \A c \in C : /\ size(g, c) = size(h, c) /\ prev_size(g, c) = prev_size(h, c)
                      /\ chunksize(g, c) = chunksize(h, c)
                      /\ is_valid(g, c) <=> is_valid(h, c)
                      /\ prev_inuse(g, c) <=> prev_inuse(h, c)
<1>1. ASSUME NEW c \in C, NEW p \in A, c = p + 8
      PROVE  FALSE
  <2>1. p \in C /\ p \in Nat /\ c \in Cells /\ chunksize(h, p) \in Int /\ chunksize(h, p) >= 16
    BY Chunk
  <2>2. p < c /\ c < p + chunksize(h, p)
    BY <1>1, <2>1
  <2> QED
    BY <2>1, <2>2, Inside
<1>2. \A c \in C : size(g, c) = size(h, c) /\ prev_size(g, c) = prev_size(h, c)
  BY <1>1, Chunk DEF Inner
<1> QED
  BY <1>2, SameHeader

\* Writes to links leave the shape, the tags and the data alone.
LEMMA InnerWrites ==
  ASSUME NEW h, NEW C, NEW t, Shape(h, C, t), NEW g, NEW A \in SUBSET C, Inner(g, h, A),
         \A p \in A : chunksize(h, p) >= 16 /\ ~ is_valid(h, p)
  PROVE  /\ Shape(g, C, t)
         /\ \A X : Tagged(h, C, t, X) => Tagged(g, C, t, X)
         /\ \A E : Keeps(g, C, h, C, E)
         /\ g.top = h.top /\ g.brk = h.brk
         /\ is_valid(g, t) <=> is_valid(h, t)
<1>1. \A c \in C : /\ size(g, c) = size(h, c) /\ prev_size(g, c) = prev_size(h, c)
                   /\ chunksize(g, c) = chunksize(h, c)
                   /\ is_valid(g, c) <=> is_valid(h, c)
                   /\ prev_inuse(g, c) <=> prev_inuse(h, c)
  BY InnerHeaders
<1>2. Shape(g, C, t)
  BY <1>1 DEF Shape, Inner, SameBounds
<1>3. ASSUME NEW X, Tagged(h, C, t, X)
      PROVE  Tagged(g, C, t, X)
  <2>1. \A p \in C : p # t => p + chunksize(h, p) \in C
    BY DEF Shape
  <2> QED
    BY <1>1, <1>3, <2>1 DEF Tagged
<1>4. ASSUME NEW q \in C, is_valid(h, q)
      PROVE  Kept(g, h, q)
  <2>1. ASSUME NEW a \in Cells, q < a, a <= q + chunksize(h, q), NEW p \in A, a = p + 8
        PROVE  FALSE
    <3>1. p \in C /\ p \in Nat /\ chunksize(h, p) \in Int /\ chunksize(h, p) >= 16 /\ q # p
      BY <1>4, Chunk
    <3>2. q \in Nat /\ a \in Nat /\ chunksize(h, q) \in Int
      BY Chunk, CellNumbers
    <3>3. p < a /\ a < p + chunksize(h, p) /\ q <= a
      BY <2>1, <3>1, <3>2
    <3> QED
      BY <2>1, <3>1, <3>3, Inside
  <2>2. \A a \in Cells : q < a /\ a < q + chunksize(h, q) => a <= q + chunksize(h, q)
    BY Chunk, CellNumbers
  <2> QED
    BY <2>1, <2>2 DEF Kept, Inner
<1>5. \A E : Keeps(g, C, h, C, E)
  BY <1>1, <1>4 DEF Keeps
<1>6. g.top = h.top /\ g.brk = h.brk /\ t \in C
  BY DEF Inner, SameBounds, Shape
<1> QED
  BY <1>1, <1>2, <1>3, <1>5, <1>6

\* Lists whose links, bins and sizes are the same are the same lists.
LEMMA ListFrame ==
  ASSUME NEW h, NEW g, NEW b \in Bins, NEW l, List(h, b, l), prev_size(g, b) = prev_size(h, b),
         \A k \in 1 .. Len(l) : /\ size(g, l[k] + 8) = size(h, l[k] + 8)
                                /\ prev_size(g, l[k] + 8) = prev_size(h, l[k] + 8)
                                /\ chunksize(g, l[k]) = chunksize(h, l[k])
  PROVE  List(g, b, l)
<1>1. Len(l) \in Nat
  BY DEF List
<1>2. ASSUME NEW k \in 0 .. Len(l)
      PROVE  prev_size(g, Node(b, l, k) + 8) = IF k = Len(l) THEN NULL ELSE l[k + 1]
  <2>1. prev_size(h, Node(b, l, k) + 8) = IF k = Len(l) THEN NULL ELSE l[k + 1]
    BY DEF List
  <2>2. CASE k = 0
    <3>1. Node(b, l, k) + 8 = b
      BY <2>2 DEF Node, Bins, UNSORTED, SMALL, MIDDLE, LARGE, HUGE
    <3> QED
      BY <2>1, <3>1
  <2>3. CASE k # 0
    <3>1. k \in 1 .. Len(l) /\ Node(b, l, k) = l[k]
      BY <1>1, <2>3 DEF Node
    <3> QED
      BY <2>1, <3>1
  <2> QED
    BY <2>2, <2>3
<1>3. \A k \in 2 .. Len(l) : chunksize(g, l[k - 1]) = chunksize(h, l[k - 1]) /\ chunksize(g, l[k]) = chunksize(h, l[k])
  <2>1. \A k \in 2 .. Len(l) : k \in 1 .. Len(l) /\ k - 1 \in 1 .. Len(l)
    BY <1>1
  <2> QED
    BY <2>1
<1> QED
  BY <1>2, <1>3 DEF List

\* The lists are those words that a link or a bin is.
LEMMA ListsFrame ==
  ASSUME NEW h, NEW g, NEW L, Lists(h, L), \A b \in Bins : prev_size(g, b) = prev_size(h, b),
         \A p \in Listed(L) : /\ size(g, p + 8) = size(h, p + 8)
                              /\ prev_size(g, p + 8) = prev_size(h, p + 8)
                              /\ chunksize(g, p) = chunksize(h, p)
  PROVE  Lists(g, L)
<1>1. ASSUME NEW b \in Bins
      PROVE  List(g, b, L[b])
  <2>1. List(h, b, L[b]) /\ L[b] \in Seq(Cells)
    BY DEF Lists, List
  <2>2. \A k \in 1 .. Len(L[b]) : L[b][k] \in Listed(L)
    BY <2>1 DEF Listed
  <2> QED
    BY <2>1, <2>2, ListFrame
<1> QED
  BY <1>1 DEF Lists

-----------------------------------------------------------------------------
(* The lists. *)

\* The chunk or bin cur and the chunk next are linked
LinkedTo(g, h, cur, next) ==
  /\ SameBounds(g, h)
  /\ \A y \in Slots : prev_size(g, y) = IF y = cur + 8 THEN next ELSE prev_size(h, y)
  /\ \A a \in Cells : size(g, a) = IF next # NULL /\ a = next + 8 THEN cur ELSE size(h, a)

\* Two chunks of a list are linked to each other.
LEMMA SetBoth ==
  ASSUME NEW h \in Heaps,
         NEW cur \in Int, cur % 4 = 0, cur + 8 \in Slots,
         NEW next \in Int, next # NULL => next % 4 = 0 /\ next + 8 \in Cells,
         NEW g, g = link_back(set_fd(h, cur, next), next, cur)
  PROVE  LinkedTo(g, h, cur, next)
<1>1. PICK f : f = set_prev_size(h, cur + 8, next)
  OBVIOUS
<1>2. /\ SameBounds(f, h)
      /\ \A y \in Slots : prev_size(f, y) = IF y = cur + 8 THEN next ELSE prev_size(h, y)
      /\ \A a \in Cells : size(f, a) = size(h, a)
  BY <1>1, WriteFirst
<1>3. set_fd(h, cur, next) = f
  BY <1>1, Pointers
<1>4. CASE next = NULL
  BY <1>2, <1>3, <1>4 DEF link_back, LinkedTo
<1>5. CASE next # NULL
  <2>1. g = set_size(f, next + 8, cur)
    BY <1>3, <1>5, Pointers DEF link_back
  <2>2. /\ SameBounds(g, f)
        /\ \A y \in Slots : prev_size(g, y) = prev_size(f, y)
        /\ \A a \in Cells : size(g, a) = IF a = next + 8 THEN cur ELSE size(f, a)
    <3>1. f \in Heaps
      BY <1>2 DEF SameBounds
    <3>2. PICK c \in Cells : c = next + 8
      BY <1>5
    <3>3. g = set_size(f, c, cur)
      BY <2>1, <3>2
    <3> QED
      BY <3>1, <3>2, <3>3, WriteSecond
  <2> QED
    BY <1>2, <1>5, <2>2 DEF LinkedTo, SameBounds
<1> QED
  BY <1>4, <1>5

\* p is put between cur and next
PutBetween(g, h, cur, p, next) ==
  /\ SameBounds(g, h)
  /\ \A y \in Slots : prev_size(g, y) = IF y = cur + 8 THEN p
                                        ELSE IF y = p + 8 THEN next ELSE prev_size(h, y)
  /\ \A a \in Cells : size(g, a) = IF next # NULL /\ a = next + 8 THEN p
                                   ELSE IF a = p + 8 THEN cur ELSE size(h, a)

\* insert_chunk writes two links each way (mm.c:207).
LEMMA InsertEffect ==
  ASSUME NEW h \in Heaps,
         NEW cur \in Int, cur % 4 = 0, cur + 8 \in Slots,
         NEW next \in Int, next # NULL => next % 4 = 0 /\ next + 8 \in Cells,
         NEW p \in Int, p % 4 = 0, p + 8 \in Cells, p # NULL,
         NEW g, g = insert_chunk(h, cur, p, next)
  PROVE  PutBetween(g, h, cur, p, next)
<1>1. PICK f1 : f1 = set_prev_size(h, p + 8, next)
  OBVIOUS
<1>2. /\ SameBounds(f1, h)
      /\ \A y \in Slots : prev_size(f1, y) = IF y = p + 8 THEN next ELSE prev_size(h, y)
      /\ \A a \in Cells : size(f1, a) = size(h, a)
  BY <1>1, WriteFirst DEF Slots
<1>3. PICK f2 : f2 = set_size(f1, p + 8, cur)
  OBVIOUS
<1>4. /\ SameBounds(f2, f1)
      /\ \A y \in Slots : prev_size(f2, y) = prev_size(f1, y)
      /\ \A a \in Cells : size(f2, a) = IF a = p + 8 THEN cur ELSE size(f1, a)
  <2>1. f1 \in Heaps
    BY <1>2 DEF SameBounds
  <2>2. PICK c \in Cells : c = p + 8
    OBVIOUS
  <2>3. f2 = set_size(f1, c, cur)
    BY <1>3, <2>2
  <2> QED
    BY <2>1, <2>2, <2>3, WriteSecond
<1>5. PICK f3 : f3 = set_prev_size(f2, cur + 8, p)
  OBVIOUS
<1>6. /\ SameBounds(f3, f2)
      /\ \A y \in Slots : prev_size(f3, y) = IF y = cur + 8 THEN p ELSE prev_size(f2, y)
      /\ \A a \in Cells : size(f3, a) = size(f2, a)
  <2>1. f2 \in Heaps
    BY <1>4 DEF SameBounds
  <2>2. PICK x \in Slots : x = cur + 8
    OBVIOUS
  <2>3. f3 = set_prev_size(f2, x, p)
    BY <1>5, <2>2
  <2> QED
    BY <2>1, <2>2, <2>3, WriteFirst
<1>7. g = link_back(f3, next, p)
  BY <1>1, <1>3, <1>5, Pointers DEF insert_chunk
<1>8. CASE next = NULL
  BY <1>2, <1>4, <1>6, <1>7, <1>8 DEF link_back, PutBetween, SameBounds
<1>9. CASE next # NULL
  <2>1. g = set_size(f3, next + 8, p)
    BY <1>7, <1>9, Pointers DEF link_back
  <2>2. /\ SameBounds(g, f3)
        /\ \A y \in Slots : prev_size(g, y) = prev_size(f3, y)
        /\ \A a \in Cells : size(g, a) = IF a = next + 8 THEN p ELSE size(f3, a)
    <3>1. f3 \in Heaps
      BY <1>6 DEF SameBounds
    <3>2. PICK c \in Cells : c = next + 8
      BY <1>9
    <3>3. g = set_size(f3, c, p)
      BY <2>1, <3>2
    <3> QED
      BY <3>1, <3>2, <3>3, WriteSecond
  <2> QED
    BY <1>2, <1>4, <1>6, <1>9, <2>2 DEF PutBetween, SameBounds
<1> QED
  BY <1>8, <1>9

\* The nodes of a list, the header of the bin among them.
LEMMA Nodes ==
  ASSUME NEW h, NEW b \in Bins, NEW l, List(h, b, l), NEW k \in 0 .. Len(l)
  PROVE  /\ Node(b, l, k) \in Int /\ Node(b, l, k) % 4 = 0 /\ Node(b, l, k) + 8 \in Slots
         /\ k = 0 => Node(b, l, k) + 8 = b /\ Node(b, l, k) + 8 \notin Cells
         /\ k # 0 => /\ k \in 1 .. Len(l) /\ Node(b, l, k) = l[k] /\ l[k] \in Cells
                     /\ l[k] + 8 \in Cells /\ l[k] # NULL /\ l[k] \in Nat
<1>1. l \in Seq(Cells) /\ Len(l) \in Nat
  BY DEF List
<1>2. CASE k = 0
  <2>1. Node(b, l, k) = b - 8
    BY <1>2 DEF Node
  <2>2. b \in Nat /\ b % 4 = 0 /\ b < 40
    BY DEF Bins, UNSORTED, SMALL, MIDDLE, LARGE, HUGE
  <2>3. b \notin Cells
    BY <2>2, CellNumbers
  <2> QED
    BY <1>2, <2>1, <2>2, <2>3 DEF Slots
<1>3. CASE k # 0
  <2>1. k \in 1 .. Len(l) /\ Node(b, l, k) = l[k]
    BY <1>1, <1>3 DEF Node
  <2>2. l[k] \in Cells /\ l[k] + 8 \in Cells
    BY <1>1, <2>1 DEF List
  <2>3. l[k] \in Nat /\ l[k] % 8 = 0 /\ l[k] >= 40
    BY <2>2, CellNumbers
  <2> QED
    BY <1>3, <2>1, <2>2, <2>3 DEF Slots, NULL
<1> QED
  BY <1>2, <1>3

After(l, k) == IF k = Len(l) THEN NULL ELSE l[k + 1]

\* What comes after a node of a list: a chunk, or NULL at the end.
LEMMA AfterNode ==
  ASSUME NEW h, NEW b \in Bins, NEW l, List(h, b, l), NEW k \in 0 .. Len(l)
  PROVE  /\ After(l, k) \in Int
         /\ After(l, k) # NULL => After(l, k) % 4 = 0 /\ After(l, k) + 8 \in Cells
         /\ After(l, k) # NULL <=> k # Len(l)
         /\ k # Len(l) => k + 1 \in 1 .. Len(l) /\ After(l, k) = l[k + 1]
<1>1. Len(l) \in Nat
  BY DEF List
<1>2. CASE k = Len(l)
  BY <1>2 DEF After, NULL
<1>3. CASE k # Len(l)
  <2>1. k + 1 \in 0 .. Len(l) /\ k + 1 # 0 /\ k + 1 \in 1 .. Len(l)
    BY <1>1, <1>3
  <2>2. /\ Node(b, l, k + 1) \in Int /\ Node(b, l, k + 1) % 4 = 0
        /\ Node(b, l, k + 1) = l[k + 1] /\ l[k + 1] + 8 \in Cells /\ l[k + 1] # NULL
    BY <2>1, Nodes
  <2> QED
    BY <1>3, <2>1, <2>2 DEF After
<1> QED
  BY <1>2, <1>3

\* Only the chunks of a list that are the same have the same place for a link.
LEMMA NodesDiffer ==
  ASSUME NEW h, NEW b \in Bins, NEW l, List(h, b, l),
         \A i, k \in 1 .. Len(l) : l[i] = l[k] => i = k,
         NEW i \in 0 .. Len(l), NEW k \in 0 .. Len(l), Node(b, l, i) + 8 = Node(b, l, k) + 8
  PROVE  i = k
<1>1. Node(b, l, i) = Node(b, l, k)
  BY Nodes
<1>2. CASE i = 0 \/ k = 0
  BY <1>1, <1>2, Nodes
<1>3. CASE i # 0 /\ k # 0
  BY <1>1, <1>3, Nodes
<1> QED
  BY <1>2, <1>3

Without(l, j) == [k \in 1 .. Len(l) - 1 |-> IF k < j THEN l[k] ELSE l[k + 1]]

With(l, j, p) == [k \in 1 .. Len(l) + 1 |-> IF k <= j THEN l[k] ELSE IF k = j + 1 THEN p ELSE l[k - 1]]

Injective(l) == \A i, k \in 1 .. Len(l) : l[i] = l[k] => i = k

\* A list without its j-th chunk.
LEMMA WithoutFacts ==
  ASSUME NEW l \in Seq(Cells), NEW j \in 1 .. Len(l)
  PROVE  /\ Without(l, j) \in Seq(Cells) /\ Len(Without(l, j)) = Len(l) - 1 /\ Len(l) - 1 \in Nat
         /\ \A k \in 1 .. Len(l) - 1 : Without(l, j)[k] = IF k < j THEN l[k] ELSE l[k + 1]
<1>1. Len(l) \in Nat /\ Len(l) - 1 \in Nat
  OBVIOUS
<1>2. \A k \in 1 .. Len(l) - 1 : l[k] \in Cells /\ l[k + 1] \in Cells
  BY <1>1
<1>3. Without(l, j) \in [1 .. Len(l) - 1 -> Cells]
  BY <1>2 DEF Without
<1> QED
  BY <1>1, <1>3 DEF Without

\* A list with a chunk after its j-th.
LEMMA WithFacts ==
  ASSUME NEW l \in Seq(Cells), NEW j \in 0 .. Len(l), NEW p \in Cells
  PROVE  /\ With(l, j, p) \in Seq(Cells) /\ Len(With(l, j, p)) = Len(l) + 1 /\ Len(l) + 1 \in Nat
         /\ \A k \in 1 .. Len(l) + 1 : With(l, j, p)[k] = IF k <= j THEN l[k] ELSE IF k = j + 1 THEN p ELSE l[k - 1]
<1>1. Len(l) \in Nat /\ Len(l) + 1 \in Nat
  OBVIOUS
<1>2. \A k \in 1 .. Len(l) + 1 : /\ k <= j => l[k] \in Cells
                                 /\ ~ (k <= j) /\ k # j + 1 => l[k - 1] \in Cells
  BY <1>1
<1>3. With(l, j, p) \in [1 .. Len(l) + 1 -> Cells]
  BY <1>2 DEF With
<1> QED
  BY <1>1, <1>3 DEF With

\* unlink_chunk in terms of the list (mm.c:230).
LEMMA UnlinkEffect ==
  ASSUME NEW h \in Heaps, NEW b \in Bins, NEW l, List(h, b, l), NEW j \in 1 .. Len(l),
         NEW g, g = unlink_chunk(h, l[j])
  PROVE  LinkedTo(g, h, Node(b, l, j - 1), After(l, j))
<1>1. l \in Seq(Cells) /\ Len(l) \in Nat /\ j \in 0 .. Len(l) /\ j - 1 \in 0 .. Len(l) /\ j # 0
  BY DEF List
<1>2. l[j] \in Cells /\ l[j] + 8 \in Cells /\ l[j] \in Int /\ l[j] % 4 = 0 /\ Node(b, l, j) = l[j]
  BY <1>1, Nodes
<1>3. size(h, l[j] + 8) = Node(b, l, j - 1)
  BY DEF List
<1>4. prev_size(h, l[j] + 8) = After(l, j)
  BY <1>1, <1>2 DEF List, After
<1>5. fd(h, l[j]) = After(l, j) /\ bk(h, l[j]) = Node(b, l, j - 1)
  BY <1>2, <1>3, <1>4, Pointers
<1>6. g = link_back(set_fd(h, Node(b, l, j - 1), After(l, j)), After(l, j), Node(b, l, j - 1))
  BY <1>5 DEF unlink_chunk
<1>7. /\ Node(b, l, j - 1) \in Int /\ Node(b, l, j - 1) % 4 = 0 /\ Node(b, l, j - 1) + 8 \in Slots
      /\ After(l, j) \in Int
      /\ After(l, j) # NULL => After(l, j) % 4 = 0 /\ After(l, j) + 8 \in Cells
  BY <1>1, Nodes, AfterNode
<1> QED
  BY <1>6, <1>7, SetBoth

\* and the list is the same without the chunk.
LEMMA UnlinkList ==
  ASSUME NEW h \in Heaps, NEW b \in Bins, NEW l, List(h, b, l), Injective(l), NEW j \in 1 .. Len(l),
         NEW g, LinkedTo(g, h, Node(b, l, j - 1), After(l, j)),
         \A k \in 1 .. Len(l) : chunksize(g, l[k]) = chunksize(h, l[k])
  PROVE  List(g, b, Without(l, j))
<1> DEFINE w == Without(l, j)
           N == Len(l)
<1>1. l \in Seq(Cells) /\ N \in Nat
  BY DEF List
<1>2. /\ w \in Seq(Cells) /\ Len(w) = N - 1 /\ N - 1 \in Nat
      /\ \A k \in 1 .. N - 1 : w[k] = IF k < j THEN l[k] ELSE l[k + 1]
  BY <1>1, WithoutFacts
<1>0. w = Without(l, j)
  OBVIOUS
<1> HIDE DEF w
<1>3. \A k \in 0 .. N - 1 : Node(b, w, k) = IF k < j THEN Node(b, l, k) ELSE Node(b, l, k + 1)
  BY <1>1, <1>2 DEF Node
<1>4. ASSUME NEW k \in 0 .. N - 1
      PROVE  prev_size(g, Node(b, w, k) + 8) = IF k = N - 1 THEN NULL ELSE w[k + 1]
  <2> DEFINE i == IF k < j THEN k ELSE k + 1
  <2>1. i \in 0 .. N /\ Node(b, w, k) = Node(b, l, i) /\ j - 1 \in 0 .. N /\ j \in 0 .. N
    BY <1>1, <1>3
  <2>2. Node(b, l, i) + 8 \in Slots
    BY <2>1, Nodes
  <2>3. CASE k = j - 1
    <3>1. i = j - 1
      BY <1>1, <2>3
    <3>2. prev_size(g, Node(b, w, k) + 8) = After(l, j)
      BY <2>1, <2>2, <3>1 DEF LinkedTo
    <3>3. k + 1 = j
      BY <2>3
    <3> QED
      BY <1>1, <1>2, <2>3, <3>2, <3>3 DEF After
  <2>4. CASE k # j - 1
    <3>1. i # j - 1
      BY <1>1, <2>4
    <3>2. Node(b, l, i) + 8 # Node(b, l, j - 1) + 8
      <4> HIDE DEF i
      <4> QED
        BY <2>1, <3>1, NodesDiffer DEF Injective
    <3>3. prev_size(g, Node(b, w, k) + 8) = prev_size(h, Node(b, l, i) + 8)
      BY <2>1, <2>2, <3>2 DEF LinkedTo
    <3>4. prev_size(h, Node(b, l, i) + 8) = IF i = N THEN NULL ELSE l[i + 1]
      BY <2>1 DEF List
    <3>5. CASE k < j
      <4>1. k + 1 < j /\ i = k /\ i # N /\ k # N - 1 /\ k + 1 \in 1 .. N - 1
        BY <1>1, <2>4, <3>5
      <4> QED
        BY <1>2, <3>3, <3>4, <4>1
    <3>6. CASE ~ (k < j)
      <4>1. i = k + 1 /\ (i = N <=> k = N - 1)
        BY <1>1, <3>6
      <4>2. k # N - 1 => k + 1 \in 1 .. N - 1 /\ ~ (k + 1 < j)
        BY <1>1, <3>6
      <4> QED
        BY <1>2, <3>3, <3>4, <4>1, <4>2
    <3> QED
      BY <3>5, <3>6
  <2> QED
    BY <2>3, <2>4
<1>5. ASSUME NEW k \in 1 .. N - 1
      PROVE  w[k] + 8 \in Cells /\ size(g, w[k] + 8) = Node(b, w, k - 1)
  <2> DEFINE i == IF k < j THEN k ELSE k + 1
  <2>1. i \in 1 .. N /\ w[k] = l[i] /\ k - 1 \in 0 .. N - 1 /\ j \in 0 .. N /\ j - 1 \in 0 .. N
    BY <1>1, <1>2
  <2> HIDE DEF i
  <2>2. l[i] + 8 \in Cells /\ size(h, l[i] + 8) = Node(b, l, i - 1) /\ l[i] \in Nat
    <3>1. \A m \in 1 .. N : l[m] + 8 \in Cells /\ size(h, l[m] + 8) = Node(b, l, m - 1)
      BY DEF List
    <3>2. l[i] \in Cells
      BY <1>1, <2>1
    <3> QED
      BY <2>1, <3>1, <3>2, CellNumbers
  <2>3. CASE k = j
    <3>1. i = j + 1 /\ j # N
      BY <1>1, <2>1, <2>3 DEF i
    <3>2. After(l, j) = l[i] /\ After(l, j) # NULL
      BY <2>1, <3>1, AfterNode
    <3>3. size(g, w[k] + 8) = Node(b, l, j - 1)
      BY <2>1, <2>2, <3>2 DEF LinkedTo
    <3>4. Node(b, w, k - 1) = Node(b, l, j - 1)
      BY <1>3, <2>1, <2>3
    <3> QED
      BY <2>1, <2>2, <3>3, <3>4
  <2>4. CASE k # j
    <3>1. After(l, j) # NULL => After(l, j) + 8 # l[i] + 8
      <4>1. SUFFICES ASSUME After(l, j) # NULL, After(l, j) + 8 = l[i] + 8 PROVE FALSE
        OBVIOUS
      <4>2. j + 1 \in 1 .. N /\ After(l, j) = l[j + 1]
        BY <2>1, <4>1, AfterNode
      <4>3. l[j + 1] \in Nat
        <5>1. l[j + 1] \in Cells
          BY <1>1, <4>2
        <5> QED
          BY <5>1, CellNumbers
      <4>4. l[j + 1] = l[i]
        BY <2>2, <4>1, <4>2, <4>3
      <4>5. i = j + 1
        BY <2>1, <4>2, <4>4 DEF Injective
      <4> QED
        BY <1>1, <2>4, <4>5 DEF i
    <3>2. size(g, w[k] + 8) = Node(b, l, i - 1)
      BY <2>1, <2>2, <3>1 DEF LinkedTo
    <3>3. Node(b, w, k - 1) = IF k - 1 < j THEN Node(b, l, k - 1) ELSE Node(b, l, k - 1 + 1)
      BY <1>3, <2>1
    <3>4. (k - 1 < j /\ i - 1 = k - 1) \/ (~ (k - 1 < j) /\ i - 1 = k - 1 + 1)
      BY <1>1, <2>4 DEF i
    <3> QED
      BY <2>1, <2>2, <3>2, <3>3, <3>4
  <2> QED
    BY <2>3, <2>4
<1>6. ASSUME b # UNSORTED, NEW k \in 2 .. N - 1
      PROVE  chunksize(g, w[k - 1]) <= chunksize(g, w[k])
  <2>0. ASSUME NEW i \in 1 .. N
        PROVE  chunksize(h, l[i]) \in Int /\ chunksize(g, l[i]) = chunksize(h, l[i])
    <3>1. l[i] \in Cells
      BY <1>1
    <3> QED
      BY <3>1, Headers
  <2>1. \A i \in 2 .. N : chunksize(h, l[i - 1]) <= chunksize(h, l[i])
    BY <1>6 DEF List
  <2>2. k - 1 \in 1 .. N - 1 /\ k \in 1 .. N - 1
    BY <1>1
  <2>3. CASE k < j
    <3>1. w[k - 1] = l[k - 1] /\ w[k] = l[k] /\ k \in 2 .. N /\ k - 1 \in 1 .. N /\ k \in 1 .. N
      BY <1>1, <1>2, <2>2, <2>3
    <3> QED
      BY <2>0, <2>1, <3>1
  <2>4. CASE k = j
    <3>1. w[k - 1] = l[k - 1] /\ w[k] = l[k + 1] /\ k \in 2 .. N /\ k + 1 \in 2 .. N /\ k + 1 - 1 = k
          /\ k - 1 \in 1 .. N /\ k \in 1 .. N /\ k + 1 \in 1 .. N
      BY <1>1, <1>2, <2>2, <2>4
    <3>2. chunksize(h, l[k - 1]) <= chunksize(h, l[k]) /\ chunksize(h, l[k]) <= chunksize(h, l[k + 1])
      BY <2>1, <3>1
    <3> QED
      BY <2>0, <3>1, <3>2
  <2>5. CASE j < k
    <3>1. w[k - 1] = l[k - 1 + 1] /\ k - 1 + 1 = k /\ w[k] = l[k + 1] /\ k + 1 \in 2 .. N /\ k + 1 - 1 = k
          /\ k \in 1 .. N /\ k + 1 \in 1 .. N
      BY <1>1, <1>2, <2>2, <2>5
    <3>2. chunksize(h, l[k]) <= chunksize(h, l[k + 1])
      BY <2>1, <3>1
    <3> QED
      BY <2>0, <3>1, <3>2
  <2> QED
    BY <1>1, <2>3, <2>4, <2>5
<1>7. \A k \in 0 .. Len(w) : prev_size(g, Node(b, w, k) + 8) = IF k = Len(w) THEN NULL ELSE w[k + 1]
  BY <1>2, <1>4
<1>8. \A k \in 1 .. Len(w) : w[k] + 8 \in Cells /\ size(g, w[k] + 8) = Node(b, w, k - 1)
  BY <1>2, <1>5
<1>9. b # UNSORTED => \A k \in 2 .. Len(w) : chunksize(g, w[k - 1]) <= chunksize(g, w[k])
  BY <1>2, <1>6
<1> HIDE DEF N
<1> QED
  BY <1>0, <1>2, <1>7, <1>8, <1>9 DEF List

\* A chunk put into a list after its first j chunks.
LEMMA InsertList ==
  ASSUME NEW h \in Heaps, NEW b \in Bins, NEW l, List(h, b, l), Injective(l), NEW j \in 0 .. Len(l),
         NEW p \in Cells, p + 8 \in Cells, \A k \in 1 .. Len(l) : l[k] # p,
         NEW g, PutBetween(g, h, Node(b, l, j), p, After(l, j)),
         \A k \in 1 .. Len(l) : chunksize(g, l[k]) = chunksize(h, l[k]),
         b # UNSORTED => /\ j # 0 => chunksize(h, l[j]) <= chunksize(g, p)
                         /\ j # Len(l) => chunksize(g, p) <= chunksize(h, l[j + 1])
  PROVE  List(g, b, With(l, j, p))
<1> DEFINE w == With(l, j, p)
           N == Len(l)
<1>1. l \in Seq(Cells) /\ N \in Nat
  BY DEF List
<1>2. /\ w \in Seq(Cells) /\ Len(w) = N + 1 /\ N + 1 \in Nat
      /\ \A k \in 1 .. N + 1 : w[k] = IF k <= j THEN l[k] ELSE IF k = j + 1 THEN p ELSE l[k - 1]
  BY <1>1, WithFacts
<1>0. w = With(l, j, p)
  OBVIOUS
<1> HIDE DEF w
<1>3. \A k \in 0 .. N + 1 : Node(b, w, k) = IF k <= j THEN Node(b, l, k)
                                           ELSE IF k = j + 1 THEN p ELSE Node(b, l, k - 1)
  BY <1>1, <1>2 DEF Node
<1>p. p \in Nat /\ p # NULL /\ p + 8 \in Slots
  BY CellNumbers DEF NULL, Slots
<1>n. ASSUME NEW i \in 0 .. N
      PROVE  Node(b, l, i) \in Int /\ Node(b, l, i) + 8 \in Slots /\ Node(b, l, i) + 8 # p + 8
  <2>1. Node(b, l, i) \in Int /\ Node(b, l, i) + 8 \in Slots
    BY Nodes
  <2>2. CASE i = 0
    BY <2>1, <2>2, Nodes
  <2>3. CASE i # 0
    <3>1. i \in 1 .. N /\ Node(b, l, i) = l[i]
      BY <2>3, Nodes
    <3> QED
      BY <2>1, <1>p, <3>1
  <2> QED
    BY <2>2, <2>3
<1>4. ASSUME NEW k \in 0 .. N + 1
      PROVE  prev_size(g, Node(b, w, k) + 8) = IF k = N + 1 THEN NULL ELSE w[k + 1]
  <2>1. CASE k = j
    <3>1. Node(b, w, k) = Node(b, l, j) /\ k # N + 1 /\ w[k + 1] = p
      BY <1>1, <1>2, <1>3, <2>1
    <3> QED
      BY <1>n, <2>1, <3>1 DEF PutBetween
  <2>2. CASE k = j + 1
    <3>1. Node(b, w, k) = p
      BY <1>1, <1>3, <2>2
    <3>2. prev_size(g, p + 8) = After(l, j)
      BY <1>n, <1>p DEF PutBetween
    <3>3. k = N + 1 <=> j = N
      BY <1>1, <2>2
    <3>4. k # N + 1 => w[k + 1] = l[j + 1]
      <4>1. k # N + 1 => k + 1 \in 1 .. N + 1 /\ ~ (k + 1 <= j) /\ k + 1 # j + 1 /\ k + 1 - 1 = j + 1
        BY <1>1, <2>2
      <4> QED
        BY <1>2, <4>1
    <3> QED
      BY <3>1, <3>2, <3>3, <3>4 DEF After
  <2>3. CASE k < j
    <3>1. Node(b, w, k) = Node(b, l, k) /\ k \in 0 .. N /\ k # N /\ k # N + 1 /\ k # j
      BY <1>1, <1>3, <2>3
    <3>2. Node(b, l, k) + 8 # Node(b, l, j) + 8
      BY <3>1, NodesDiffer DEF Injective
    <3>3. prev_size(g, Node(b, w, k) + 8) = prev_size(h, Node(b, l, k) + 8)
      BY <1>n, <3>1, <3>2 DEF PutBetween
    <3>4. prev_size(h, Node(b, l, k) + 8) = l[k + 1]
      BY <3>1 DEF List
    <3>5. w[k + 1] = l[k + 1]
      BY <1>1, <1>2, <2>3
    <3> QED
      BY <3>1, <3>3, <3>4, <3>5
  <2>4. CASE k > j + 1
    <3>1. Node(b, w, k) = Node(b, l, k - 1) /\ k - 1 \in 0 .. N /\ k - 1 # j
      BY <1>1, <1>3, <2>4
    <3>2. Node(b, l, k - 1) + 8 # Node(b, l, j) + 8
      BY <3>1, NodesDiffer DEF Injective
    <3>3. prev_size(g, Node(b, w, k) + 8) = prev_size(h, Node(b, l, k - 1) + 8)
      BY <1>n, <3>1, <3>2 DEF PutBetween
    <3>4. prev_size(h, Node(b, l, k - 1) + 8) = IF k - 1 = N THEN NULL ELSE l[k - 1 + 1]
      BY <3>1 DEF List
    <3>5. k # N + 1 => w[k + 1] = l[k - 1 + 1]
      <4>1. k # N + 1 => /\ k + 1 \in 1 .. N + 1 /\ ~ (k + 1 <= j) /\ k + 1 # j + 1
                         /\ k + 1 - 1 = k - 1 + 1
        BY <1>1, <2>4
      <4> QED
        BY <1>2, <4>1
    <3>6. k - 1 = N <=> k = N + 1
      BY <1>1
    <3> QED
      BY <3>3, <3>4, <3>5, <3>6
  <2> QED
    BY <1>1, <2>1, <2>2, <2>3, <2>4
<1>5. ASSUME NEW k \in 1 .. N + 1
      PROVE  w[k] + 8 \in Cells /\ size(g, w[k] + 8) = Node(b, w, k - 1)
  <2>0. \A i \in 1 .. N : /\ l[i] + 8 \in Cells /\ size(h, l[i] + 8) = Node(b, l, i - 1)
                          /\ l[i] \in Nat /\ l[i] + 8 # p + 8
    <3>1. ASSUME NEW i \in 1 .. N PROVE l[i] \in Nat /\ l[i] + 8 # p + 8
      <4>1. l[i] \in Cells
        BY <1>1
      <4>2. l[i] \in Nat
        BY <4>1, CellNumbers
      <4> QED
        BY <1>p, <4>2
    <3>2. \A i \in 1 .. N : l[i] + 8 \in Cells /\ size(h, l[i] + 8) = Node(b, l, i - 1)
      BY DEF List
    <3> QED
      BY <3>1, <3>2
  <2>1. CASE k = j + 1
    <3>1. w[k] = p /\ Node(b, w, k - 1) = Node(b, l, j)
      BY <1>1, <1>2, <1>3, <2>1
    <3>2. After(l, j) # NULL => After(l, j) + 8 # p + 8
      <4>1. After(l, j) # NULL => j + 1 \in 1 .. N /\ After(l, j) = l[j + 1]
        BY AfterNode
      <4> QED
        BY <2>0, <4>1
    <3> QED
      BY <3>1, <3>2 DEF PutBetween
  <2>2. CASE k = j + 2
    <3>1. j # N /\ w[k] = l[j + 1] /\ Node(b, w, k - 1) = p /\ j + 1 \in 1 .. N
      <4>1. k \in 1 .. N + 1 /\ ~ (k <= j) /\ k # j + 1 /\ k - 1 = j + 1 /\ k - 1 \in 0 .. N + 1 /\ j # N
        BY <1>1, <2>2
      <4> QED
        BY <1>1, <1>2, <1>3, <4>1
    <3>2. After(l, j) = l[j + 1] /\ After(l, j) # NULL
      BY <3>1, AfterNode
    <3> QED
      BY <2>0, <3>1, <3>2 DEF PutBetween
  <2>3. CASE k # j + 1 /\ k # j + 2
    <3> DEFINE i == IF k <= j THEN k ELSE k - 1
    <3>1. i \in 1 .. N /\ i # j + 1
      BY <1>1, <2>3
    <3>2. w[k] = l[i]
      BY <1>2, <2>3
    <3>3. Node(b, w, k - 1) = Node(b, l, i - 1)
      <4>1. CASE k <= j
        <5>1. k - 1 \in 0 .. N + 1 /\ k - 1 <= j /\ i = k
          BY <1>1, <4>1
        <5> QED
          BY <1>3, <5>1
      <4>2. CASE ~ (k <= j)
        <5>1. k - 1 \in 0 .. N + 1 /\ ~ (k - 1 <= j) /\ k - 1 # j + 1 /\ i - 1 = k - 1 - 1
          BY <1>1, <2>3, <4>2
        <5> QED
          BY <1>3, <5>1
      <4> QED
        BY <4>1, <4>2
    <3> HIDE DEF i
    <3>4. After(l, j) # NULL => After(l, j) + 8 # l[i] + 8
      <4>1. SUFFICES ASSUME After(l, j) # NULL, After(l, j) + 8 = l[i] + 8 PROVE FALSE
        OBVIOUS
      <4>2. j + 1 \in 1 .. N /\ After(l, j) = l[j + 1]
        BY <4>1, AfterNode
      <4>3. l[j + 1] = l[i]
        <5>1. PICK a \in Nat, c \in Nat : a = l[j + 1] /\ c = l[i]
          BY <2>0, <3>1, <4>2
        <5>2. a + 8 = c + 8
          BY <4>1, <4>2, <5>1
        <5>3. a = c
          BY <5>2
        <5> QED
          BY <5>1, <5>3
      <4> QED
        BY <3>1, <4>2, <4>3 DEF Injective
    <3>5. size(g, l[i] + 8) = size(h, l[i] + 8)
      BY <2>0, <3>1, <3>4 DEF PutBetween
    <3> QED
      BY <2>0, <3>1, <3>2, <3>3, <3>5
  <2> QED
    BY <2>1, <2>2, <2>3
<1>6. ASSUME b # UNSORTED, NEW k \in 2 .. N + 1
      PROVE  chunksize(g, w[k - 1]) <= chunksize(g, w[k])
  <2>0. \A i \in 1 .. N : chunksize(g, l[i]) = chunksize(h, l[i])
    OBVIOUS
  <2>1. \A i \in 2 .. N : chunksize(h, l[i - 1]) <= chunksize(h, l[i])
    BY <1>6 DEF List
  <2>2. k - 1 \in 1 .. N + 1 /\ k \in 1 .. N + 1
    BY <1>1
  <2>3. CASE k <= j
    <3>1. w[k - 1] = l[k - 1] /\ w[k] = l[k] /\ k \in 2 .. N /\ k - 1 \in 1 .. N /\ k \in 1 .. N
      BY <1>1, <1>2, <2>2, <2>3
    <3> QED
      BY <2>0, <2>1, <3>1
  <2>4. CASE k = j + 1
    <3>1. w[k - 1] = l[j] /\ w[k] = p /\ j \in 1 .. N /\ j # 0
      BY <1>1, <1>2, <2>2, <2>4
    <3> QED
      BY <1>6, <2>0, <3>1
  <2>5. CASE k = j + 2
    <3>1. k - 1 = j + 1 /\ ~ (k <= j) /\ k # j + 1 /\ ~ (j + 1 <= j) /\ j # N /\ j + 1 \in 1 .. N
      BY <1>1, <2>5
    <3>2. w[k - 1] = p /\ w[k] = l[j + 1]
      BY <1>2, <2>2, <3>1
    <3> QED
      BY <1>6, <2>0, <3>1, <3>2
  <2>6. CASE k > j + 2
    <3>1. ~ (k <= j) /\ k # j + 1 /\ ~ (k - 1 <= j) /\ k - 1 # j + 1 /\ k - 1 \in 2 .. N
          /\ k - 1 \in 1 .. N /\ k - 1 - 1 \in 1 .. N
      BY <1>1, <2>6
    <3>2. w[k - 1] = l[k - 1 - 1] /\ w[k] = l[k - 1]
      BY <1>2, <2>2, <3>1
    <3> QED
      BY <2>0, <2>1, <3>1, <3>2
  <2> QED
    BY <1>1, <2>3, <2>4, <2>5, <2>6
<1>7. \A k \in 0 .. Len(w) : prev_size(g, Node(b, w, k) + 8) = IF k = Len(w) THEN NULL ELSE w[k + 1]
  BY <1>2, <1>4
<1>8. \A k \in 1 .. Len(w) : w[k] + 8 \in Cells /\ size(g, w[k] + 8) = Node(b, w, k - 1)
  BY <1>2, <1>5
<1>9. b # UNSORTED => \A k \in 2 .. Len(w) : chunksize(g, w[k - 1]) <= chunksize(g, w[k])
  BY <1>2, <1>6
<1> HIDE DEF N
<1> QED
  BY <1>0, <1>2, <1>7, <1>8, <1>9 DEF List

\* g differs from h in links of free chunks and in bins only
LinksOnly(g, h, C, t) ==
  /\ Shape(g, C, t) /\ g.top = h.top /\ g.brk = h.brk
  /\ \A X : Tagged(h, C, t, X) => Tagged(g, C, t, X)
  /\ \A E : Keeps(g, C, h, C, E)
  /\ \A c \in C : /\ size(g, c) = size(h, c) /\ prev_size(g, c) = prev_size(h, c)
                  /\ chunksize(g, c) = chunksize(h, c)
                  /\ is_valid(g, c) <=> is_valid(h, c)
                  /\ prev_inuse(g, c) <=> prev_inuse(h, c)

\* Writes to the links of free chunks are writes to links only.
LEMMA LinksInside ==
  ASSUME NEW h, NEW C, NEW t, Shape(h, C, t), NEW g, NEW A \in SUBSET C, Inner(g, h, A),
         \A p \in A : chunksize(h, p) >= 16 /\ ~ is_valid(h, p)
  PROVE  LinksOnly(g, h, C, t)
BY InnerHeaders, InnerWrites DEF LinksOnly

\* Two routines that write links only, one after the other do.
LEMMA LinksAgain ==
  ASSUME NEW f, NEW g, NEW h, NEW C, NEW t, LinksOnly(g, h, C, t), LinksOnly(f, g, C, t)
  PROVE  LinksOnly(f, h, C, t)
<1>1. \A E : Keeps(f, C, h, C, E)
  BY KeepsAgain DEF LinksOnly
<1> QED
  BY <1>1 DEF LinksOnly

\* Different chunks have their links in different words.
LEMMA LinksDiffer == \A x, y \in Nat : x # y => x + 8 # y + 8
OBVIOUS

\* A chunk in a list is in one, at one place.
LEMMA ListedFacts ==
  ASSUME NEW h, NEW L, Lists(h, L), NEW b \in Bins
  PROVE  /\ L[b] \in Seq(Cells) /\ Len(L[b]) \in Nat /\ List(h, b, L[b]) /\ Injective(L[b])
         /\ \A k \in 1 .. Len(L[b]) : L[b][k] \in Listed(L) /\ L[b][k] \in Cells
<1>1. List(h, b, L[b]) /\ Once(L)
  BY DEF Lists
<1>2. L[b] \in Seq(Cells) /\ Len(L[b]) \in Nat
  BY <1>1 DEF List
<1>3. Injective(L[b])
  BY <1>1 DEF Once, Injective
<1> QED
  BY <1>1, <1>2, <1>3 DEF Listed

\* What unlink_chunk and the insertion of a chunk leave of another list
LEMMA OtherList ==
  ASSUME NEW h, NEW L, Lists(h, L), NEW b \in Bins, NEW c \in Bins \ {b},
         NEW j \in 0 .. Len(L[b]), NEW k \in 1 .. Len(L[c])
  PROVE  /\ Node(b, L[b], j) + 8 # c
         /\ L[c][k] + 8 # Node(b, L[b], j) + 8
         /\ After(L[b], j) # NULL => L[c][k] + 8 # After(L[b], j) + 8
         /\ L[c][k] + 8 \in Cells /\ L[c][k] + 8 \in Slots /\ L[c][k] \in Nat
<1>1. List(h, b, L[b]) /\ List(h, c, L[c]) /\ Once(L)
  BY DEF Lists
<1>2. L[c][k] \in Cells /\ L[c][k] + 8 \in Cells /\ L[c][k] \in Nat
  <2>1. L[c] \in Seq(Cells) /\ L[c][k] + 8 \in Cells
    BY <1>1 DEF List
  <2>2. L[c][k] \in Cells
    BY <2>1
  <2> QED
    BY <2>1, <2>2, CellNumbers
<1>3. c < 40 /\ b < 40 /\ c \in Nat /\ b \in Nat
  BY DEF Bins, UNSORTED, SMALL, MIDDLE, LARGE, HUGE
<1>5. ASSUME NEW i \in 1 .. Len(L[b])
      PROVE  L[b][i] \in Nat /\ L[b][i] >= 40 /\ L[b][i] + 8 # L[c][k] + 8
  <2>1. L[b] \in Seq(Cells)
    BY <1>1 DEF List
  <2>2. L[b][i] \in Cells
    BY <2>1
  <2>3. L[b][i] # L[c][k]
    BY <1>1 DEF Once
  <2> QED
    BY <1>2, <2>2, <2>3, CellNumbers, LinksDiffer
<1>6. j # 0 => Node(b, L[b], j) + 8 # c /\ L[c][k] + 8 # Node(b, L[b], j) + 8
  <2>1. j # 0 => Node(b, L[b], j) = L[b][j] /\ j \in 1 .. Len(L[b])
    BY <1>1, Nodes
  <2> QED
    BY <1>3, <1>5, <2>1
<1>7. j = 0 => Node(b, L[b], j) + 8 # c /\ L[c][k] + 8 # Node(b, L[b], j) + 8
  <2>1. j = 0 => Node(b, L[b], j) + 8 = b
    BY <1>1, Nodes
  <2>2. L[c][k] >= 40
    BY <1>2, CellNumbers
  <2> QED
    BY <1>2, <1>3, <2>1, <2>2
<1>8. After(L[b], j) # NULL => L[c][k] + 8 # After(L[b], j) + 8
  <2>1. After(L[b], j) # NULL => j + 1 \in 1 .. Len(L[b]) /\ After(L[b], j) = L[b][j + 1]
    BY <1>1, AfterNode
  <2> QED
    BY <1>5, <2>1
<1> QED
  BY <1>2, <1>6, <1>7, <1>8 DEF Slots

\* The free chunks that are listed
LEMMA ListedChunks ==
  ASSUME NEW h, NEW C, NEW t, NEW L, NEW limbo, Shape(h, C, t), FreeListed(h, C, t, L, limbo)
  PROVE  \A p \in Listed(L) : /\ p \in C /\ p # t /\ p \notin limbo
                              /\ chunksize(h, p) >= 16 /\ ~ is_valid(h, p)
BY DEF FreeListed

\* The lists M are L but for that of b
Replaced(M, L, b, l) == M = [c \in Bins |-> M[c]] /\ M[b] = l /\ \A c \in Bins \ {b} : M[c] = L[c]

\* One list can be another while the others stay.
LEMMA Replaceable == \A L, l : \A b \in Bins : \E M : Replaced(M, L, b, l)
<1>1. ASSUME NEW L, NEW l, NEW b \in Bins
      PROVE  Replaced([c \in Bins |-> IF c = b THEN l ELSE L[c]], L, b, l)
  BY DEF Replaced
<1> QED
  BY <1>1

\* The cell after the header of a chunk is one.
LEMMA AfterHeader ==
  \A p \in Nat : p % 8 = 0 /\ 40 <= p => p + 8 \in Int /\ (p + 8) % 8 = 0 /\ 40 <= p + 8 /\ p % 4 = 0 /\ p # NULL
BY DEF NULL

\* Lists without one of their chunks
LEMMA WithoutOne ==
  ASSUME NEW h, NEW L, Lists(h, L), NEW b \in Bins, NEW j \in 1 .. Len(L[b]),
         NEW M, Replaced(M, L, b, Without(L[b], j))
  PROVE  /\ Once(M) /\ Listed(M) = Listed(L) \ {L[b][j]}
<1> DEFINE l == L[b]
           p == L[b][j]
           at(c, k) == IF c = b /\ k >= j THEN k + 1 ELSE k
<1>1. L = [c \in Bins |-> L[c]] /\ Once(L)
  BY DEF Lists
<1>2. M = [c \in Bins |-> M[c]] /\ M[b] = Without(L[b], j) /\ \A c \in Bins \ {b} : M[c] = L[c]
  BY DEF Replaced
<1>3. \A c \in Bins : L[c] \in Seq(Cells) /\ Len(L[c]) \in Nat
  BY ListedFacts
<1>4. /\ Len(Without(l, j)) = Len(l) - 1 /\ Len(l) - 1 \in Nat
      /\ \A k \in 1 .. Len(l) - 1 : Without(l, j)[k] = IF k < j THEN l[k] ELSE l[k + 1]
  BY <1>3, WithoutFacts
<1>5. ASSUME NEW c \in Bins, NEW k \in 1 .. Len(M[c])
      PROVE  /\ at(c, k) \in 1 .. Len(L[c]) /\ M[c][k] = L[c][at(c, k)]
             /\ ~ (c = b /\ at(c, k) = j) /\ k \in Nat
  <2>1. CASE c = b
    BY <1>2, <1>3, <1>4, <2>1
  <2>2. CASE c # b
    BY <1>2, <1>3, <2>2
  <2> QED
    BY <2>1, <2>2
<1>6. Once(M)
  <2>1. ASSUME NEW c \in Bins, NEW d \in Bins, NEW i \in 1 .. Len(M[c]), NEW k \in 1 .. Len(M[d]),
               M[c][i] = M[d][k]
        PROVE  c = d /\ i = k
    <3>1. L[c][at(c, i)] = L[d][at(d, k)] /\ at(c, i) \in 1 .. Len(L[c]) /\ at(d, k) \in 1 .. Len(L[d])
      <4>1. M[c][i] = L[c][at(c, i)] /\ at(c, i) \in 1 .. Len(L[c])
        BY <1>5
      <4>2. M[d][k] = L[d][at(d, k)] /\ at(d, k) \in 1 .. Len(L[d])
        BY <1>5
      <4> HIDE DEF at
      <4> QED
        BY <2>1, <4>1, <4>2
    <3>2. c = d /\ at(c, i) = at(d, k)
      <4> HIDE DEF at
      <4> QED
        BY <1>1, <3>1 DEF Once
    <3>3. i \in Nat /\ k \in Nat
      BY <1>5
    <3> QED
      BY <3>2, <3>3
  <2> QED
    BY <2>1 DEF Once
<1>7. ASSUME NEW q \in Listed(M)
      PROVE  q \in Listed(L) \ {p}
  <2>1. PICK c \in Bins : \E k \in 1 .. Len(M[c]) : M[c][k] = q
    BY DEF Listed
  <2>2. PICK k \in 1 .. Len(M[c]) : M[c][k] = q
    BY <2>1
  <2>3. q = L[c][at(c, k)] /\ at(c, k) \in 1 .. Len(L[c]) /\ ~ (c = b /\ at(c, k) = j)
    BY <1>5, <2>2
  <2> HIDE DEF at
  <2>4. q # p
    BY <1>1, <2>3 DEF Once
  <2> QED
    BY <2>3, <2>4 DEF Listed
<1>8. ASSUME NEW q \in Listed(L), q # p
      PROVE  q \in Listed(M)
  <2>1. PICK c \in Bins : \E k \in 1 .. Len(L[c]) : L[c][k] = q
    BY DEF Listed
  <2>2. PICK k \in 1 .. Len(L[c]) : L[c][k] = q
    BY <2>1
  <2>3. CASE c # b
    BY <1>2, <2>2, <2>3 DEF Listed
  <2>4. CASE c = b
    <3> DEFINE i == IF k < j THEN k ELSE k - 1
    <3>1. k # j
      BY <1>8, <2>2, <2>4
    <3>2. i \in 1 .. Len(l) - 1 /\ l[k] = IF i < j THEN l[i] ELSE l[i + 1]
      BY <1>3, <2>4, <3>1
    <3>3. i \in 1 .. Len(M[b]) /\ M[b][i] = q
      BY <1>2, <1>4, <2>2, <2>4, <3>2
    <3> HIDE DEF i
    <3> QED
      BY <3>3 DEF Listed
  <2> QED
    BY <2>3, <2>4
<1> QED
  BY <1>2, <1>6, <1>7, <1>8

\* A heap with the lists L, in which the chunks of limbo are not
Part(h, C, t, L, limbo) == Shape(h, C, t) /\ Lists(h, L) /\ FreeListed(h, C, t, L, limbo)

\* unlink_chunk takes a chunk out of the lists and changes nothing else (mm.c:230).
LEMMA Unlinks ==
  ASSUME NEW h, NEW C, NEW t, NEW L, NEW limbo,
         Shape(h, C, t), Lists(h, L), FreeListed(h, C, t, L, limbo),
         NEW b \in Bins, NEW j \in 1 .. Len(L[b]), NEW g, g = unlink_chunk(h, L[b][j]),
         NEW M, Replaced(M, L, b, Without(L[b], j))
  PROVE  LinksOnly(g, h, C, t) /\ Part(g, C, t, M, limbo \cup {L[b][j]})
<1> DEFINE l == L[b]
           cur == Node(b, l, j - 1)
           next == After(l, j)
<1>1. h \in Heaps
  BY DEF Shape
<1>2. /\ l \in Seq(Cells) /\ Len(l) \in Nat /\ List(h, b, l) /\ Injective(l)
      /\ \A k \in 1 .. Len(l) : l[k] \in Listed(L)
  BY ListedFacts
<1>3. j \in 0 .. Len(l) /\ j - 1 \in 0 .. Len(l)
  BY <1>2
<1>4. LinkedTo(g, h, cur, next)
  BY <1>1, <1>2, UnlinkEffect
<1>5. Inner(g, h, Listed(L))
  <2>1. ASSUME NEW a \in Cells, a \notin {q + 8 : q \in Listed(L)}
        PROVE  a # cur + 8 /\ (next # NULL => a # next + 8)
    <3>1. CASE a = cur + 8
      <4>1. j - 1 # 0
        BY <1>2, <1>3, <3>1, Nodes
      <4>2. cur = l[j - 1] /\ j - 1 \in 1 .. Len(l)
        BY <1>2, <1>3, <4>1, Nodes
      <4> HIDE DEF cur
      <4> QED
        BY <1>2, <2>1, <3>1, <4>2
    <3>2. CASE next # NULL /\ a = next + 8
      <4>1. next = l[j + 1] /\ j + 1 \in 1 .. Len(l)
        BY <1>2, <1>3, <3>2, AfterNode
      <4> HIDE DEF next
      <4> QED
        BY <1>2, <2>1, <3>2, <4>1
    <3> QED
      BY <3>1, <3>2
  <2> HIDE DEF cur, next
  <2> QED
    BY <1>4, <2>1 DEF LinkedTo, Inner, Slots
<1>6. Listed(L) \in SUBSET C /\ \A q \in Listed(L) : chunksize(h, q) >= 16 /\ ~ is_valid(h, q)
  BY ListedChunks
<1>7. LinksOnly(g, h, C, t)
  BY <1>5, <1>6, LinksInside
<1>8. \A q \in Listed(L) : chunksize(g, q) = chunksize(h, q)
  BY <1>6, <1>7 DEF LinksOnly
<1>9. List(g, b, Without(l, j))
  BY <1>1, <1>2, <1>4, <1>8, UnlinkList
<1>10. ASSUME NEW c \in Bins \ {b}
       PROVE  List(g, c, L[c])
  <2>1. List(h, c, L[c]) /\ \A k \in 1 .. Len(L[c]) : L[c][k] \in Listed(L)
    BY ListedFacts
  <2>2. prev_size(g, c) = prev_size(h, c)
    <3>1. cur + 8 # c
      <4>1. c < 40 /\ c \in Nat /\ b # c
        BY DEF Bins, UNSORTED, SMALL, MIDDLE, LARGE, HUGE
      <4>2. j - 1 = 0 => cur + 8 = b
        BY <1>2, <1>3, Nodes
      <4>3. j - 1 # 0 => cur + 8 \in Cells
        BY <1>2, <1>3, Nodes
      <4> QED
        BY <4>1, <4>2, <4>3, CellNumbers
    <3> HIDE DEF cur, next
    <3> QED
      BY <1>4, <3>1 DEF LinkedTo, Slots
  <2>3. ASSUME NEW k \in 1 .. Len(L[c])
        PROVE  /\ size(g, L[c][k] + 8) = size(h, L[c][k] + 8)
               /\ prev_size(g, L[c][k] + 8) = prev_size(h, L[c][k] + 8)
    <3>1. /\ L[c][k] + 8 # cur + 8 /\ L[c][k] + 8 \in Cells /\ L[c][k] + 8 \in Slots
          /\ next # NULL => L[c][k] + 8 # next + 8
      BY <1>3, OtherList
    <3> HIDE DEF cur, next
    <3> QED
      BY <1>4, <3>1 DEF LinkedTo
  <2> QED
    BY <1>8, <2>1, <2>2, <2>3, ListFrame
<1>11. /\ M = [c \in Bins |-> M[c]] /\ M[b] = Without(L[b], j) /\ \A c \in Bins \ {b} : M[c] = L[c]
       /\ Once(M) /\ Listed(M) = Listed(L) \ {L[b][j]}
  <2>1. M = [c \in Bins |-> M[c]] /\ M[b] = Without(L[b], j) /\ \A c \in Bins \ {b} : M[c] = L[c]
    BY DEF Replaced
  <2> HIDE DEF l, cur, next
  <2> QED
    BY <2>1, WithoutOne
<1>12. Lists(g, M)
  BY <1>9, <1>10, <1>11 DEF Lists
<1>13. FreeListed(g, C, t, M, limbo \cup {L[b][j]})
  BY <1>6, <1>7, <1>8, <1>11 DEF FreeListed, LinksOnly
<1> QED
  BY <1>7, <1>12, <1>13 DEF Part, LinksOnly

\* A list with a new chunk: still no chunk is in two places.
LEMMA WithOne ==
  ASSUME NEW h, NEW L, Lists(h, L), NEW b \in Bins, NEW j \in 0 .. Len(L[b]),
         NEW p \in Cells, p \notin Listed(L),
         NEW M, Replaced(M, L, b, With(L[b], j, p))
  PROVE  /\ Once(M) /\ Listed(M) = Listed(L) \cup {p}
<1> DEFINE l == L[b]
           new(c, k) == c = b /\ k = j + 1
           at(c, k) == IF c = b /\ k > j THEN k - 1 ELSE k
<1>1. L = [c \in Bins |-> L[c]] /\ Once(L)
  BY DEF Lists
<1>2. M = [c \in Bins |-> M[c]] /\ M[b] = With(L[b], j, p) /\ \A c \in Bins \ {b} : M[c] = L[c]
  BY DEF Replaced
<1>3. \A c \in Bins : L[c] \in Seq(Cells) /\ Len(L[c]) \in Nat
  BY ListedFacts
<1>4. /\ Len(With(l, j, p)) = Len(l) + 1
      /\ \A k \in 1 .. Len(l) + 1 : With(l, j, p)[k] = IF k <= j THEN l[k] ELSE IF k = j + 1 THEN p ELSE l[k - 1]
  <2>1. l \in Seq(Cells) /\ j \in 0 .. Len(l)
    BY <1>3
  <2> HIDE DEF l
  <2> QED
    BY <2>1, WithFacts
<1>5. ASSUME NEW c \in Bins, NEW k \in 1 .. Len(M[c])
      PROVE  /\ new(c, k) => M[c][k] = p
             /\ ~ new(c, k) => at(c, k) \in 1 .. Len(L[c]) /\ M[c][k] = L[c][at(c, k)] /\ M[c][k] \in Listed(L)
             /\ k \in Nat
  <2>1. CASE c = b
    <3>1. k \in 1 .. Len(l) + 1 /\ Len(l) \in Nat
      BY <1>2, <1>3, <1>4, <2>1
    <3>2. ~ new(c, k) => at(c, k) \in 1 .. Len(L[c]) /\ M[c][k] = L[c][at(c, k)]
      BY <1>2, <1>4, <2>1, <3>1
    <3>3. new(c, k) => M[c][k] = p
      BY <1>2, <1>4, <2>1, <3>1
    <3> HIDE DEF at
    <3>4. ~ new(c, k) => M[c][k] \in Listed(L)
      BY <1>3, <3>2 DEF Listed
    <3> QED
      BY <3>1, <3>2, <3>3, <3>4
  <2>2. CASE c # b
    <3>1. at(c, k) = k /\ ~ new(c, k) /\ M[c] = L[c]
      BY <1>2, <2>2
    <3>2. M[c][k] \in Listed(L)
      BY <1>3, <3>1 DEF Listed
    <3> QED
      BY <3>1, <3>2
  <2> QED
    BY <2>1, <2>2
<1>6. Once(M)
  <2>1. ASSUME NEW c \in Bins, NEW d \in Bins, NEW i \in 1 .. Len(M[c]), NEW k \in 1 .. Len(M[d]),
               M[c][i] = M[d][k]
        PROVE  c = d /\ i = k
    <3>1. CASE new(c, i) /\ new(d, k)
      BY <3>1
    <3>2. CASE new(c, i) # new(d, k)
      <4>1. M[c][i] = p \/ M[d][k] = p
        BY <1>5, <3>2
      <4>2. M[c][i] \in Listed(L) \/ M[d][k] \in Listed(L)
        BY <1>5, <3>2
      <4> QED
        BY <2>1, <4>1, <4>2
    <3>3. CASE ~ new(c, i) /\ ~ new(d, k)
      <4>1. L[c][at(c, i)] = L[d][at(d, k)] /\ at(c, i) \in 1 .. Len(L[c]) /\ at(d, k) \in 1 .. Len(L[d])
        <5>1. M[c][i] = L[c][at(c, i)] /\ at(c, i) \in 1 .. Len(L[c])
          BY <1>5, <3>3
        <5>2. M[d][k] = L[d][at(d, k)] /\ at(d, k) \in 1 .. Len(L[d])
          BY <1>5, <3>3
        <5> HIDE DEF at
        <5> QED
          BY <2>1, <5>1, <5>2
      <4>2. c = d /\ at(c, i) = at(d, k)
        <5> HIDE DEF at
        <5> QED
          BY <1>1, <4>1 DEF Once
      <4>3. i \in Nat /\ k \in Nat
        BY <1>5
      <4> QED
        BY <3>3, <4>2, <4>3
    <3> QED
      BY <3>1, <3>2, <3>3
  <2> QED
    BY <2>1 DEF Once
<1>7. ASSUME NEW q \in Listed(M)
      PROVE  q \in Listed(L) \cup {p}
  <2>1. PICK c \in Bins : \E k \in 1 .. Len(M[c]) : M[c][k] = q
    BY DEF Listed
  <2>2. PICK k \in 1 .. Len(M[c]) : M[c][k] = q
    BY <2>1
  <2> QED
    BY <1>5, <2>2
<1>8. ASSUME NEW q \in Listed(L)
      PROVE  q \in Listed(M)
  <2>1. PICK c \in Bins : \E k \in 1 .. Len(L[c]) : L[c][k] = q
    BY DEF Listed
  <2>2. PICK k \in 1 .. Len(L[c]) : L[c][k] = q
    BY <2>1
  <2>3. CASE c # b
    BY <1>2, <2>2, <2>3 DEF Listed
  <2>4. CASE c = b
    <3> DEFINE i == IF k <= j THEN k ELSE k + 1
    <3>1. /\ i \in 1 .. Len(l) + 1 /\ i # j + 1
          /\ l[k] = IF i <= j THEN l[i] ELSE l[i - 1]
      BY <1>3, <2>4
    <3>2. i \in 1 .. Len(M[b]) /\ M[b][i] = q
      BY <1>2, <1>4, <2>2, <2>4, <3>1
    <3> HIDE DEF i
    <3> QED
      BY <3>2 DEF Listed
  <2> QED
    BY <2>3, <2>4
<1>9. p \in Listed(M)
  <2>1. j + 1 \in 1 .. Len(M[b]) /\ M[b][j + 1] = p
    <3>1. j + 1 \in 1 .. Len(l) + 1 /\ ~ (j + 1 <= j)
      BY <1>3
    <3> QED
      BY <1>2, <1>4, <3>1
  <2> QED
    BY <2>1 DEF Listed
<1> QED
  BY <1>2, <1>6, <1>7, <1>8, <1>9

\* Whether p can come after the j-th chunk of the list of b
InOrder(h, L, b, j, p) ==
  b # UNSORTED => /\ j # 0 => chunksize(h, L[b][j]) <= chunksize(h, p)
                  /\ j # Len(L[b]) => chunksize(h, p) <= chunksize(h, L[b][j + 1])

\* A free chunk that is in no list is put into one.
LEMMA Inserts ==
  ASSUME NEW h, NEW C, NEW t, NEW L, NEW limbo,
         Shape(h, C, t), Lists(h, L), FreeListed(h, C, t, L, limbo),
         NEW p \in limbo, p \in C, p # t, ~ is_valid(h, p), chunksize(h, p) >= 16,
         NEW b \in Bins, NEW j \in 0 .. Len(L[b]),
         InOrder(h, L, b, j, p),
         NEW g, g = insert_chunk(h, Node(b, L[b], j), p, After(L[b], j)),
         NEW M, Replaced(M, L, b, With(L[b], j, p))
  PROVE  LinksOnly(g, h, C, t) /\ Part(g, C, t, M, limbo \ {p})
<1> DEFINE l == L[b]
           cur == Node(b, l, j)
           next == After(l, j)
<1>1. h \in Heaps
  BY DEF Shape
<1>2. /\ l \in Seq(Cells) /\ Len(l) \in Nat /\ List(h, b, l) /\ Injective(l)
      /\ \A k \in 1 .. Len(l) : l[k] \in Listed(L)
  BY ListedFacts
<1>3. /\ p \in Cells /\ p + 8 \in Cells /\ p \in Nat /\ p % 4 = 0 /\ p # NULL
  <2>1. /\ p \in Cells /\ p \in Nat /\ p % 8 = 0 /\ 40 <= p
        /\ p + chunksize(h, p) <= h.brk /\ h.brk \in Int /\ h.brk <= HeapEnd /\ chunksize(h, p) \in Int
    BY Chunk
  <2>0. HeapEnd \in Nat
    BY Constants
  <2>3. p + 8 < HeapEnd
    BY <2>0, <2>1
  <2>4. p + 8 \in Int /\ (p + 8) % 8 = 0 /\ 40 <= p + 8 /\ p % 4 = 0 /\ p # NULL
    BY <2>1, AfterHeader
  <2>2. p + 8 < HeapEnd /\ p + 8 \in Int /\ (p + 8) % 8 = 0 /\ 40 <= p + 8 /\ p % 4 = 0 /\ p # NULL
    BY <2>3, <2>4
  <2> QED
    BY <2>1, <2>2, CellNumbers
<1>4. p \notin Listed(L)
  BY ListedChunks
<1>5. PutBetween(g, h, cur, p, next)
  <2>1. cur \in Int /\ cur % 4 = 0 /\ cur + 8 \in Slots
    BY <1>2, Nodes
  <2>2. next \in Int /\ (next # NULL => next % 4 = 0 /\ next + 8 \in Cells)
    BY <1>2, AfterNode
  <2> QED
    BY <1>1, <1>3, <2>1, <2>2, InsertEffect
<1>6. Inner(g, h, Listed(L) \cup {p})
  <2>1. ASSUME NEW a \in Cells, a \notin {q + 8 : q \in Listed(L) \cup {p}}
        PROVE  a # cur + 8 /\ (next # NULL => a # next + 8) /\ a # p + 8
    <3>1. CASE a = cur + 8
      <4>1. j # 0
        BY <1>2, <3>1, Nodes
      <4>2. cur = l[j] /\ j \in 1 .. Len(l)
        BY <1>2, <4>1, Nodes
      <4> HIDE DEF cur
      <4> QED
        BY <1>2, <2>1, <3>1, <4>2
    <3>2. CASE next # NULL /\ a = next + 8
      <4>1. next = l[j + 1] /\ j + 1 \in 1 .. Len(l)
        BY <1>2, <3>2, AfterNode
      <4> HIDE DEF next
      <4> QED
        BY <1>2, <2>1, <3>2, <4>1
    <3>3. a # p + 8
      BY <2>1
    <3> QED
      BY <3>1, <3>2, <3>3
  <2> HIDE DEF cur, next
  <2> QED
    BY <1>5, <2>1 DEF PutBetween, Inner, Slots
<1>7. Listed(L) \cup {p} \in SUBSET C /\ \A q \in Listed(L) \cup {p} : chunksize(h, q) >= 16 /\ ~ is_valid(h, q)
  BY ListedChunks
<1>8. LinksOnly(g, h, C, t)
  BY <1>6, <1>7, LinksInside
<1>9. \A q \in Listed(L) \cup {p} : chunksize(g, q) = chunksize(h, q)
  BY <1>7, <1>8 DEF LinksOnly
<1>10. List(g, b, With(l, j, p))
  <2>1. \A k \in 1 .. Len(l) : l[k] # p /\ chunksize(g, l[k]) = chunksize(h, l[k])
    BY <1>2, <1>4, <1>9
  <2>2. chunksize(g, p) = chunksize(h, p)
    BY <1>9
  <2> QED
    BY <1>1, <1>2, <1>3, <1>5, <2>1, <2>2, InsertList DEF InOrder
<1>11. ASSUME NEW c \in Bins \ {b}
       PROVE  List(g, c, L[c])
  <2>1. List(h, c, L[c]) /\ \A k \in 1 .. Len(L[c]) : L[c][k] \in Listed(L)
    BY ListedFacts
  <2>2. prev_size(g, c) = prev_size(h, c)
    <3>0. c < 40 /\ c \in Nat /\ b # c
      BY DEF Bins, UNSORTED, SMALL, MIDDLE, LARGE, HUGE
    <3>1. cur + 8 # c
      <4>1. j = 0 => cur + 8 = b
        BY <1>2, Nodes
      <4>2. j # 0 => cur + 8 \in Cells
        BY <1>2, Nodes
      <4> QED
        BY <3>0, <4>1, <4>2, CellNumbers
    <3>2. p + 8 # c
      BY <1>3, <3>0, CellNumbers
    <3> HIDE DEF cur, next
    <3> QED
      BY <1>5, <3>1, <3>2 DEF PutBetween, Slots
  <2>3. ASSUME NEW k \in 1 .. Len(L[c])
        PROVE  /\ size(g, L[c][k] + 8) = size(h, L[c][k] + 8)
               /\ prev_size(g, L[c][k] + 8) = prev_size(h, L[c][k] + 8)
    <3>1. /\ L[c][k] + 8 # cur + 8 /\ L[c][k] + 8 \in Cells /\ L[c][k] + 8 \in Slots /\ L[c][k] \in Nat
          /\ next # NULL => L[c][k] + 8 # next + 8
      BY OtherList
    <3>2. L[c][k] # p
      BY <1>4, <2>1
    <3>3. L[c][k] + 8 # p + 8
      BY <1>3, <3>1, <3>2, LinksDiffer
    <3> HIDE DEF cur, next
    <3> QED
      BY <1>5, <3>1, <3>3 DEF PutBetween
  <2> QED
    BY <1>9, <2>1, <2>2, <2>3, ListFrame
<1>12. /\ M = [c \in Bins |-> M[c]] /\ M[b] = With(L[b], j, p) /\ \A c \in Bins \ {b} : M[c] = L[c]
       /\ Once(M) /\ Listed(M) = Listed(L) \cup {p}
  <2>1. M = [c \in Bins |-> M[c]] /\ M[b] = With(L[b], j, p) /\ \A c \in Bins \ {b} : M[c] = L[c]
    BY DEF Replaced
  <2> HIDE DEF l, cur, next
  <2> QED
    BY <1>3, <1>4, <2>1, WithOne
<1>13. Lists(g, M)
  BY <1>10, <1>11, <1>12 DEF Lists
<1>14. FreeListed(g, C, t, M, limbo \ {p})
  <2>1. \A q \in C : is_valid(g, q) <=> is_valid(h, q)
    BY <1>8 DEF LinksOnly
  <2>2. Listed(M) = {q \in C : q # t /\ ~ is_valid(g, q)} \ (limbo \ {p})
    BY <1>12, <2>1 DEF FreeListed
  <2> QED
    BY <1>7, <1>9, <1>12, <2>2 DEF FreeListed
<1> QED
  BY <1>8, <1>13, <1>14 DEF Part, LinksOnly

\* Every nonempty set of naturals has a least element.
LEMMA LeastNatural ==
  ASSUME NEW S, S \subseteq Nat, S # {}
  PROVE  \E n \in S : \A m \in S : n <= m
<1> DEFINE R == OpToRel(<, Nat)
<1>1. IsWellFoundedOn(R, Nat)
  BY NatLessThanWellFounded
<1>2. PICK n \in S : \A m \in S : ~ (<<m, n>> \in R)
  BY <1>1, WFMin, Zenon
<1>3. \A m \in S : ~ (m < n)
  BY <1>2 DEF OpToRel
<1> QED
  BY <1>3

MaxLen == MAX_HEAP \div 8

\* A multiple of 8 is 8 times its eighth.
LEMMA Eighths == \A m \in Int : m % 8 = 0 => m \div 8 \in Int /\ m = 8 * (m \div 8)
OBVIOUS

\* A heap has an eighth of its size in cells.
LEMMA Lengths == MaxLen \in Nat /\ MAX_HEAP = 8 * MaxLen
<1>1. MAX_HEAP \in Nat /\ MAX_HEAP % 8 = 0
  BY Constants
<1>2. MAX_HEAP \div 8 \in Int /\ MAX_HEAP = 8 * (MAX_HEAP \div 8)
  BY <1>1, Eighths
<1>3. MaxLen \in Int /\ MAX_HEAP = 8 * MaxLen
  BY <1>2 DEF MaxLen
<1> QED
  BY <1>1, <1>3

\* A list has no more chunks than there are cells.
LEMMA ListLength ==
  ASSUME NEW l \in Seq(Cells), Injective(l)
  PROVE  Len(l) \in Nat /\ MaxLen \in Nat /\ Len(l) <= MaxLen
<1>1. Len(l) \in Nat /\ MaxLen \in Nat /\ MAX_HEAP = 8 * MaxLen
  <2>1. Len(l) \in Nat
    OBVIOUS
  <2> QED
    BY <2>1, Lengths
<1>2. /\ IsFiniteSet(1 .. Len(l)) /\ Cardinality(1 .. Len(l)) = Len(l)
      /\ IsFiniteSet(1 .. MaxLen) /\ Cardinality(1 .. MaxLen) = MaxLen
  <2>1. \A n \in Nat : IsFiniteSet(1 .. n) /\ Cardinality(1 .. n) = n
    BY FS_Interval
  <2> QED
    BY <1>1, <2>1
<1>3. PICK f \in [1 .. Len(l) -> 1 .. MaxLen] : \A i \in 1 .. Len(l) : 8 * f[i] = l[i] - 32
  <2> DEFINE f == [i \in 1 .. Len(l) |-> (l[i] - 32) \div 8]
  <2>1. ASSUME NEW i \in 1 .. Len(l)
        PROVE  f[i] \in 1 .. MaxLen /\ 8 * f[i] = l[i] - 32
    <3>1. l[i] \in Cells
      OBVIOUS
    <3>2. l[i] \in Nat /\ l[i] % 8 = 0 /\ 40 <= l[i] /\ l[i] < 40 + 8 * MaxLen
      <4>1. l[i] \in Nat /\ l[i] % 8 = 0 /\ 40 <= l[i] /\ l[i] < HeapEnd
        BY <3>1, CellNumbers
      <4>2. HeapEnd = 40 + 8 * MaxLen
        BY <1>1, Constants
      <4> QED
        BY <4>1, <4>2
    <3>3. (l[i] - 32) \div 8 \in 1 .. MaxLen /\ 8 * ((l[i] - 32) \div 8) = l[i] - 32
      <4>1. PICK x \in Nat : x = l[i]
        BY <3>2
      <4>2. x - 32 \in Int /\ (x - 32) % 8 = 0 /\ 8 <= x - 32 /\ x - 32 < 8 + 8 * MaxLen
        BY <1>1, <3>2, <4>1
      <4>3. (x - 32) \div 8 \in Int /\ x - 32 = 8 * ((x - 32) \div 8)
        BY <4>2, Eighths
      <4>4. PICK y \in Int : y = (x - 32) \div 8
        BY <4>3
      <4>5. x - 32 = 8 * y
        BY <4>3, <4>4
      <4>6. PICK k \in Nat : k = MaxLen
        BY <1>1
      <4>7. 8 <= 8 * y /\ 8 * y < 8 + 8 * k
        BY <4>2, <4>5, <4>6
      <4>8. y \in 1 .. k
        BY <4>7
      <4> HIDE DEF f
      <4> QED
        BY <4>1, <4>4, <4>5, <4>6, <4>8
    <3> QED
      BY <3>3
  <2>2. f \in [1 .. Len(l) -> 1 .. MaxLen]
    BY <2>1
  <2> QED
    BY <2>1, <2>2
<1>4. ASSUME NEW i \in 1 .. Len(l), NEW j \in 1 .. Len(l), f[i] = f[j]
      PROVE  i = j
  <2>1. l[i] \in Cells /\ l[j] \in Cells
    OBVIOUS
  <2>2. l[i] - 32 = l[j] - 32 /\ l[i] \in Nat /\ l[j] \in Nat
    BY <1>3, <1>4, <2>1, CellNumbers
  <2>3. l[i] = l[j]
    BY <2>2
  <2> QED
    BY <2>3 DEF Injective
<1>5. ~ (Cardinality(1 .. MaxLen) < Cardinality(1 .. Len(l)))
  <2>1. SUFFICES ASSUME Cardinality(1 .. MaxLen) < Cardinality(1 .. Len(l)) PROVE FALSE
    OBVIOUS
  <2>2. \E x, y \in 1 .. Len(l) : x # y /\ f[x] = f[y]
    BY <1>2, <2>1, FS_PigeonHole
  <2> QED
    BY <1>4, <2>2
<1> QED
  BY <1>1, <1>2, <1>5

\* One turn of the loop along a list
Turn(h, bin, at) == [k \in 0 .. MAX_HEAP \div 8 |-> IF k = 0 THEN bin_head(h, bin) ELSE following(h, at[k - 1])]

\* A walk along a list meets its chunks, in their order.
LEMMA ChainIsList ==
  ASSUME NEW h, NEW b \in Bins, NEW l, List(h, b, l), Injective(l)
  PROVE  Chain(h, b) = l
<1> DEFINE w0 == [k \in 0 .. MaxLen |-> IF k < Len(l) THEN l[k + 1] ELSE NULL]
           at == CHOOSE w : w = Turn(h, b, w)
           n == CHOOSE i \in 0 .. MaxLen : at[i] = NULL /\ \A j \in 0 .. i - 1 : at[j] # NULL
<1>1. l \in Seq(Cells) /\ Len(l) \in Nat /\ MaxLen \in Nat /\ Len(l) <= MaxLen
  BY ListLength DEF List
<1>8. \A i \in 0 .. Len(l) : i # 0 => l[i] # NULL
  <2>1. \A i \in 0 .. Len(l) : i # 0 => Node(b, l, i) = l[i] /\ l[i] # NULL
    BY Nodes
  <2> QED
    BY <2>1
<1>2. w0 = Turn(h, b, w0)
  <2>1. ASSUME NEW k \in 0 .. MaxLen
        PROVE  w0[k] = Turn(h, b, w0)[k]
    <3>1. CASE k = 0
      <4>1. bin_head(h, b) = IF 0 = Len(l) THEN NULL ELSE l[1]
        <5>1. 0 \in 0 .. Len(l) /\ Node(b, l, 0) + 8 = b
          BY <1>1, Nodes
        <5> QED
          BY <5>1, BinHead DEF List
      <4> QED
        BY <1>1, <3>1, <4>1 DEF Turn, MaxLen
    <3>2. CASE k # 0 /\ k <= Len(l)
      <4>1. k \in 1 .. Len(l) /\ k - 1 \in 0 .. MaxLen /\ k - 1 + 1 = k /\ k - 1 < Len(l)
        BY <1>1, <3>2
      <4>2. w0[k - 1] = l[k] /\ w0[k] = IF k = Len(l) THEN NULL ELSE l[k + 1]
        BY <1>1, <3>2, <4>1
      <4>3. /\ l[k] # NULL /\ l[k] \in Int /\ l[k] % 4 = 0
            /\ prev_size(h, l[k] + 8) = IF k = Len(l) THEN NULL ELSE l[k + 1]
        <5>1. k \in 0 .. Len(l) /\ k # 0
          BY <4>1
        <5>2. Node(b, l, k) = l[k] /\ l[k] \in Nat /\ l[k] # NULL /\ Node(b, l, k) % 4 = 0
          BY <5>1, Nodes
        <5>3. prev_size(h, Node(b, l, k) + 8) = IF k = Len(l) THEN NULL ELSE l[k + 1]
          BY <5>1 DEF List
        <5> QED
          BY <5>2, <5>3
      <4>4. following(h, l[k]) = w0[k]
        BY <4>2, <4>3, Pointers DEF following
      <4> HIDE DEF w0
      <4> QED
        BY <3>2, <4>2, <4>4 DEF Turn, MaxLen
    <3>3. CASE k > Len(l)
      <4>1. k - 1 \in 0 .. MaxLen /\ k # 0 /\ ~ (k - 1 < Len(l)) /\ ~ (k < Len(l))
        BY <1>1, <3>3
      <4>2. w0[k - 1] = NULL /\ w0[k] = NULL
        BY <4>1
      <4> HIDE DEF w0
      <4> QED
        BY <4>1, <4>2 DEF Turn, MaxLen, following
    <3> QED
      BY <1>1, <3>1, <3>2, <3>3
  <2> QED
    BY <2>1 DEF Turn, MaxLen
<1>3. at = Turn(h, b, at)
  <2> HIDE DEF w0
  <2> QED
    BY <1>2
<1>4. \A k \in 0 .. MaxLen : at[k] = w0[k]
  <2>1. SUFFICES ASSUME NEW k \in 0 .. MaxLen, at[k] # w0[k] PROVE FALSE
    OBVIOUS
  <2> HIDE DEF w0, at
  <2> DEFINE S == {i \in 0 .. MaxLen : at[i] # w0[i]}
  <2>2. S \subseteq Nat /\ S # {}
    BY <1>1, <2>1
  <2> HIDE DEF S
  <2>3. PICK i \in S : \A j \in S : i <= j
    BY <2>2, LeastNatural
  <2> USE DEF S
  <2>4. i \in 0 .. MaxLen /\ at[i] # w0[i]
    BY <2>3
  <2>5. i # 0 => i - 1 \in 0 .. MaxLen /\ ~ (i <= i - 1)
    BY <1>1, <2>4
  <2>6. i # 0 => at[i - 1] = w0[i - 1]
    BY <2>3, <2>5
  <2>7. Turn(h, b, at)[i] = Turn(h, b, w0)[i]
    BY <2>4, <2>6 DEF Turn, MaxLen
  <2> QED
    BY <1>2, <1>3, <2>4, <2>7
<1>5. n = Len(l)
  <2>1. \A k \in 0 .. MaxLen : at[k] = IF k < Len(l) THEN l[k + 1] ELSE NULL
    BY <1>4
  <2> HIDE DEF at
  <2>2. \A k \in 0 .. Len(l) - 1 : at[k] # NULL /\ k \in 0 .. MaxLen
    <3>1. ASSUME NEW k \in 0 .. Len(l) - 1
          PROVE  l[k + 1] # NULL /\ k \in 0 .. MaxLen /\ k < Len(l)
      <4>1. k + 1 \in 0 .. Len(l) /\ k + 1 # 0 /\ k \in 0 .. MaxLen /\ k < Len(l)
        BY <1>1
      <4> QED
        BY <1>8, <4>1
    <3> QED
      BY <2>1, <3>1
  <2>3. \A k \in 0 .. MaxLen : k >= Len(l) => at[k] = NULL
    BY <1>1, <2>1
  <2>4. Len(l) \in 0 .. MaxLen /\ at[Len(l)] = NULL
    BY <1>1, <2>3
  <2>5. ASSUME NEW i \in 0 .. MaxLen, at[i] = NULL, \A j \in 0 .. i - 1 : at[j] # NULL
        PROVE  i = Len(l)
    <3>1. ~ (i < Len(l))
      BY <1>1, <2>2, <2>5
    <3>2. ~ (Len(l) < i)
      BY <1>1, <2>4, <2>5
    <3> QED
      BY <1>1, <3>1, <3>2
  <2> QED
    BY <2>2, <2>4, <2>5
<1>6. Chain(h, b) = [k \in 1 .. n |-> at[k - 1]]
  BY DEF Chain, Turn, MaxLen
<1>7. ASSUME NEW k \in 1 .. Len(l)
      PROVE  at[k - 1] = l[k]
  <2>1. k - 1 \in 0 .. MaxLen /\ k - 1 < Len(l) /\ k - 1 + 1 = k
    BY <1>1
  <2>2. w0[k - 1] = l[k]
    BY <2>1
  <2> HIDE DEF w0, at
  <2> QED
    BY <1>4, <2>1, <2>2
<1> HIDE DEF w0, at, n
<1> QED
  BY <1>1, <1>5, <1>6, <1>7

\* How far find_chunk_from_bin and append_chunk go along a list.
LEMMA SmallerFacts ==
  ASSUME NEW h \in Heaps, NEW l \in Seq(Cells), NEW n \in Int, NEW k, k = Smaller(h, l, n)
  PROVE  /\ k \in 0 .. Len(l)
         /\ k # 0 => k \in 1 .. Len(l) /\ chunksize(h, l[k]) < n
         /\ k # Len(l) => k + 1 \in 1 .. Len(l) /\ chunksize(h, l[k + 1]) >= n
<1> DEFINE fits == {i \in DOMAIN l : chunksize(h, l[i]) >= n}
<1>1. Len(l) \in Nat /\ DOMAIN l = 1 .. Len(l)
  OBVIOUS
<1>2. \A i \in 1 .. Len(l) : chunksize(h, l[i]) \in Int
  BY <1>1, Headers
<1>3. CASE fits = {}
  <2>1. k = Len(l)
    BY <1>3 DEF Smaller
  <2>2. k # 0 => k \in 1 .. Len(l)
    BY <1>1, <2>1
  <2> QED
    BY <1>1, <1>2, <1>3, <2>1, <2>2
<1>4. CASE fits # {}
  <2>1. fits \subseteq Nat
    BY <1>1
  <2> HIDE DEF fits
  <2>2. PICK i \in fits : \A j \in fits : i <= j
    BY <1>4, <2>1, LeastNatural
  <2>3. \A j \in fits : (\A m \in fits : j <= m) => j = i
    BY <2>1, <2>2
  <2>4. (CHOOSE j \in fits : \A m \in fits : j <= m) = i
    BY <2>2, <2>3
  <2> USE DEF fits
  <2>5. k = i - 1
    BY <1>4, <2>4 DEF Smaller
  <2>6. i \in 1 .. Len(l) /\ chunksize(h, l[i]) >= n
    BY <1>1, <2>2
  <2>7. k \in 0 .. Len(l) /\ k + 1 = i /\ ~ (i <= k) /\ (k # 0 => k \in 1 .. Len(l))
    BY <1>1, <2>5, <2>6
  <2>8. k # 0 => chunksize(h, l[k]) < n
    <3>1. k # 0 => k \notin fits
      BY <2>2, <2>7
    <3> QED
      BY <1>1, <1>2, <2>7, <3>1
  <2> QED
    BY <2>6, <2>7, <2>8
<1> QED
  BY <1>3, <1>4

\* What an insertion gives: p is in a list of b, and the others are as before
Inserted(g, h, C, t, L, limbo, p, b) ==
  /\ LinksOnly(g, h, C, t)
  /\ \E M : /\ Part(g, C, t, M, limbo \ {p}) /\ Listed(M) = Listed(L) \cup {p}
            /\ \A c \in Bins \ {b} : M[c] = L[c]

\* A chunk is inserted where it is in order.
LEMMA InsertsAt ==
  ASSUME NEW h, NEW C, NEW t, NEW L, NEW limbo, Part(h, C, t, L, limbo),
         NEW p \in limbo, p \in C, p # t, ~ is_valid(h, p), chunksize(h, p) >= 16,
         NEW b \in Bins, NEW j \in 0 .. Len(L[b]),
         InOrder(h, L, b, j, p),
         NEW g, g = insert_chunk(h, Node(b, L[b], j), p, After(L[b], j))
  PROVE  Inserted(g, h, C, t, L, limbo, p, b)
<1>1. PICK M : Replaced(M, L, b, With(L[b], j, p))
  BY Replaceable
<1>2. LinksOnly(g, h, C, t) /\ Part(g, C, t, M, limbo \ {p})
  <2>1. Shape(h, C, t) /\ Lists(h, L) /\ FreeListed(h, C, t, L, limbo)
    BY DEF Part
  <2> QED
    BY <1>1, <2>1, Inserts
<1>3. Listed(M) = Listed(L) \cup {p}
  <2>1. p \notin Listed(L) /\ p \in Cells
    BY ListedChunks, Chunk DEF Part
  <2> QED
    BY <1>1, <2>1, WithOne DEF Part
<1> QED
  BY <1>1, <1>2, <1>3 DEF Inserted, Part, LinksOnly, Replaced

\* append_chunk keeps a list sorted (mm.c:191).
LEMMA Appends ==
  ASSUME NEW h, NEW C, NEW t, NEW L, NEW limbo, Part(h, C, t, L, limbo),
         NEW p \in limbo, p \in C, p # t, ~ is_valid(h, p), chunksize(h, p) >= 16,
         NEW b \in Bins, NEW g, g = append_chunk(h, b, p)
  PROVE  Inserted(g, h, C, t, L, limbo, p, b)
<1> DEFINE l == L[b]
           j == Smaller(h, l, chunksize(h, p))
<1>1. h \in Heaps /\ l \in Seq(Cells) /\ List(h, b, l) /\ Injective(l) /\ p \in Cells
  BY ListedFacts, Chunk DEF Part, Shape
<1>2. chunksize(h, p) \in Int /\ \A i \in 1 .. Len(l) : chunksize(h, l[i]) \in Int
  BY <1>1, Headers
<1>3. Chain(h, b) = l
  BY <1>1, ChainIsList
<1>4. /\ j \in 0 .. Len(l)
      /\ j # 0 => j \in 1 .. Len(l) /\ chunksize(h, l[j]) < chunksize(h, p)
      /\ j # Len(l) => j + 1 \in 1 .. Len(l) /\ chunksize(h, l[j + 1]) >= chunksize(h, p)
  BY <1>1, <1>2, SmallerFacts
<1>5. g = insert_chunk(h, IF j = 0 THEN mem2chunk(b) ELSE l[j], p, IF j = Len(l) THEN NULL ELSE l[j + 1])
  BY <1>3 DEF append_chunk
<1> HIDE DEF j
<1>6. g = insert_chunk(h, Node(b, l, j), p, After(l, j))
  BY <1>5 DEF Node, After, mem2chunk
<1>7. InOrder(h, L, b, j, p)
  BY <1>2, <1>4 DEF InOrder
<1> QED
  BY <1>4, <1>6, <1>7, InsertsAt

\* A chunk goes to the front of the unsorted list (mm.c:217).
LEMMA AppendsUnsorted ==
  ASSUME NEW h, NEW C, NEW t, NEW L, NEW limbo, Part(h, C, t, L, limbo),
         NEW p \in limbo, p \in C, p # t, ~ is_valid(h, p), chunksize(h, p) >= 16,
         NEW g, g = append_chunk_unsorted(h, p)
  PROVE  Inserted(g, h, C, t, L, limbo, p, UNSORTED)
<1> DEFINE b == UNSORTED
           l == L[b]
<1>0. b \in Bins
  BY DEF Bins
<1>1. l \in Seq(Cells) /\ List(h, b, l) /\ Len(l) \in Nat
  BY <1>0, ListedFacts DEF Part
<1>2. 0 \in 0 .. Len(l) /\ Node(b, l, 0) + 8 = b /\ Node(b, l, 0) = b - 8
  <2>1. 0 \in 0 .. Len(l) /\ Node(b, l, 0) = b - 8
    BY <1>1 DEF Node
  <2>2. Node(b, l, 0) + 8 = b
    BY <1>0, <1>1, <2>1, Nodes
  <2> QED
    BY <2>1, <2>2
<1>3. bin_head(h, b) = After(l, 0)
  BY <1>1, <1>2, BinHead DEF List, After
<1>4. g = insert_chunk(h, Node(b, l, 0), p, After(l, 0))
  BY <1>2, <1>3 DEF append_chunk_unsorted, mem2chunk
<1>5. InOrder(h, L, b, 0, p)
  BY DEF InOrder
<1> QED
  BY <1>0, <1>2, <1>4, <1>5, InsertsAt

\* What unlink_chunk gives
Unlinked(g, h, C, t, L, limbo, p) ==
  /\ LinksOnly(g, h, C, t)
  /\ \E M : Part(g, C, t, M, limbo \cup {p}) /\ Listed(M) = Listed(L) \ {p}

\* A listed chunk is taken out of its list (mm.c:230).
LEMMA UnlinksListed ==
  ASSUME NEW h, NEW C, NEW t, NEW L, NEW limbo, Part(h, C, t, L, limbo),
         NEW p \in Listed(L), NEW g, g = unlink_chunk(h, p)
  PROVE  Unlinked(g, h, C, t, L, limbo, p)
<1>1. PICK b \in Bins : \E k \in 1 .. Len(L[b]) : L[b][k] = p
  BY DEF Listed
<1>2. PICK j \in 1 .. Len(L[b]) : L[b][j] = p
  BY <1>1
<1>3. PICK M : Replaced(M, L, b, Without(L[b], j))
  BY Replaceable
<1>4. Shape(h, C, t) /\ Lists(h, L) /\ FreeListed(h, C, t, L, limbo) /\ g = unlink_chunk(h, L[b][j])
  BY <1>2 DEF Part
<1>5. LinksOnly(g, h, C, t) /\ Part(g, C, t, M, limbo \cup {L[b][j]})
  BY <1>3, <1>4, Unlinks
<1>6. Listed(M) = Listed(L) \ {L[b][j]}
  BY <1>3, <1>4, WithoutOne
<1>7. Part(g, C, t, M, limbo \cup {p})
  BY <1>2, <1>5
<1> QED
  BY <1>2, <1>5, <1>6, <1>7 DEF Unlinked

\* The unsorted bin after its first k chunks were sorted
Rest(M, L, k) ==
  /\ Len(M[UNSORTED]) = Len(L[UNSORTED]) - k
  /\ \A i \in 1 .. Len(L[UNSORTED]) - k : M[UNSORTED][i] = L[UNSORTED][i + k]

SortedUpTo(g, h, C, t, L, k) ==
  /\ LinksOnly(g, h, C, t)
  /\ \E M : Part(g, C, t, M, {}) /\ Rest(M, L, k)

\* A heap has its own shape, tags and data.
LEMMA LinksItself ==
  ASSUME NEW h, NEW C, NEW t, Shape(h, C, t)
  PROVE  LinksOnly(h, h, C, t)
BY KeepsItself DEF LinksOnly

\* One turn of the loop over the unsorted list sorts one chunk.
LEMMA SortsOne ==
  ASSUME NEW h, NEW C, NEW t, NEW L, NEW g, NEW k \in Nat, k < Len(L[UNSORTED]), Len(L[UNSORTED]) \in Nat,
         SortedUpTo(g, h, C, t, L, k),
         NEW f, f = sort_chunk(g, L[UNSORTED][k + 1])
  PROVE  SortedUpTo(f, h, C, t, L, k + 1)
<1> DEFINE n == Len(L[UNSORTED]) - k
<1>0. UNSORTED \in Bins /\ n \in Nat /\ n >= 1
  BY DEF Bins
<1>1. LinksOnly(g, h, C, t)
  BY DEF SortedUpTo
<1>2. PICK M : Part(g, C, t, M, {}) /\ Rest(M, L, k)
  BY DEF SortedUpTo
<1>3. Len(M[UNSORTED]) = n /\ \A i \in 1 .. n : M[UNSORTED][i] = L[UNSORTED][i + k]
  BY <1>2 DEF Rest
<1> DEFINE p == M[UNSORTED][1]
           e == unlink_chunk(g, p)
           b == calculate_bin(chunksize(e, p))
<1>4. 1 \in 1 .. Len(M[UNSORTED]) /\ p = L[UNSORTED][k + 1]
  BY <1>0, <1>3
<1>5. /\ M[UNSORTED] \in Seq(Cells) /\ p \in Listed(M)
      /\ Shape(g, C, t) /\ Lists(g, M) /\ FreeListed(g, C, t, M, {})
  BY <1>0, <1>2, <1>4, ListedFacts DEF Part
<1>6. PICK N : Replaced(N, M, UNSORTED, Without(M[UNSORTED], 1))
  BY <1>0, Replaceable
<1>7. LinksOnly(e, g, C, t) /\ Part(e, C, t, N, {} \cup {p})
  <2> HIDE DEF b
  <2> QED
    BY <1>0, <1>4, <1>5, <1>6, Unlinks
<1>8. Part(e, C, t, N, {p})
  <2>1. {} \cup {p} = {p}
    OBVIOUS
  <2> HIDE DEF e, p
  <2> QED
    BY <1>7, <2>1
<1>9. p \in C /\ p # t /\ chunksize(e, p) >= 16 /\ ~ is_valid(e, p)
  <2>1. p \in C /\ p # t /\ chunksize(g, p) >= 16 /\ ~ is_valid(g, p)
    BY <1>5, ListedChunks
  <2> HIDE DEF e, p
  <2> QED
    BY <1>7, <2>1 DEF LinksOnly
<1>10. /\ Len(Without(M[UNSORTED], 1)) = n - 1
       /\ \A i \in 1 .. n - 1 : Without(M[UNSORTED], 1)[i] = M[UNSORTED][i + 1]
  <2>1. /\ Len(Without(M[UNSORTED], 1)) = Len(M[UNSORTED]) - 1
        /\ \A i \in 1 .. Len(M[UNSORTED]) - 1 :
             Without(M[UNSORTED], 1)[i] = IF i < 1 THEN M[UNSORTED][i] ELSE M[UNSORTED][i + 1]
    BY <1>4, <1>5, WithoutFacts
  <2>2. \A i \in 1 .. n - 1 : ~ (i < 1)
    BY <1>0
  <2> HIDE DEF n
  <2> QED
    BY <1>3, <2>1, <2>2
<1>11. Rest(N, L, k + 1)
  <2>1. N[UNSORTED] = Without(M[UNSORTED], 1)
    BY <1>6 DEF Replaced
  <2>2. n - 1 = Len(L[UNSORTED]) - (k + 1)
    OBVIOUS
  <2>3. \A i \in 1 .. n - 1 : i + 1 \in 1 .. n /\ i + 1 + k = i + (k + 1)
    BY <1>0
  <2>4. \A i \in 1 .. n - 1 : N[UNSORTED][i] = L[UNSORTED][i + (k + 1)]
    <3> HIDE DEF n
    <3> QED
      BY <1>3, <1>10, <2>1, <2>3
  <2> QED
    BY <1>10, <2>1, <2>2, <2>4 DEF Rest
<1>12. b \in Bins /\ b # UNSORTED
  BY DEF calculate_bin, Bins, UNSORTED, SMALL, MIDDLE, LARGE, HUGE
<1>13. f = append_chunk(e, calculate_bin(chunksize(g, p)), p) /\ chunksize(e, p) = chunksize(g, p)
  <2>1. chunksize(e, p) = chunksize(g, p)
    <3> HIDE DEF e, p
    <3> QED
      BY <1>7, <1>9 DEF LinksOnly
  <2> QED
    BY <1>4, <2>1 DEF sort_chunk
<1>14. Inserted(f, e, C, t, N, {p}, p, b)
  <2>1. f = append_chunk(e, b, p)
    BY <1>13
  <2> HIDE DEF e, p, b
  <2> QED
    BY <1>8, <1>9, <1>12, <2>1, Appends
<1> HIDE DEF e, p, b
<1>15. LinksOnly(f, h, C, t)
  <2>1. LinksOnly(f, e, C, t)
    BY <1>14 DEF Inserted
  <2>2. LinksOnly(f, g, C, t)
    BY <1>7, <2>1, LinksAgain
  <2> QED
    BY <1>1, <2>2, LinksAgain
<1>16. PICK P : Part(f, C, t, P, {p} \ {p}) /\ \A c \in Bins \ {b} : P[c] = N[c]
  BY <1>14 DEF Inserted
<1>17. Part(f, C, t, P, {})
  <2>1. {p} \ {p} = {}
    OBVIOUS
  <2> QED
    BY <1>16, <2>1
<1>18. P[UNSORTED] = N[UNSORTED]
  BY <1>0, <1>12, <1>16
<1>19. Rest(P, L, k + 1)
  BY <1>11, <1>18 DEF Rest
<1> QED
  BY <1>15, <1>17, <1>19 DEF SortedUpTo

\* The heaps that find_chunk_from_unsorted goes through
SortTurn(h, list, sorted) ==
  [k \in 0 .. Len(list) |-> IF k = 0 THEN h ELSE sort_chunk(sorted[k - 1], list[k])]

\* The turns of that loop can be made, whatever memory holds.
LEMMA SortingExists ==
  ASSUME NEW h, NEW list, Len(list) \in Nat
  PROVE  \E f : f = SortTurn(h, list, f)
<1> DEFINE Steps(n, f) == f = [k \in 0 .. n |-> IF k = 0 THEN h ELSE sort_chunk(f[k - 1], list[k])]
           S == {n \in Nat : ~ \E f : Steps(n, f)}
<1>1. \E f : Steps(0, f)
  <2> DEFINE f == [k \in 0 .. 0 |-> h]
  <2>1. Steps(0, f)
    OBVIOUS
  <2> QED
    BY <2>1
<1>2. ASSUME NEW n \in Nat, NEW f, Steps(n, f)
      PROVE  \E g : Steps(n + 1, g)
  <2> DEFINE g == [k \in 0 .. n + 1 |-> IF k = n + 1 THEN sort_chunk(f[n], list[n + 1]) ELSE f[k]]
             turn == [k \in 0 .. n + 1 |-> IF k = 0 THEN h ELSE sort_chunk(g[k - 1], list[k])]
  <2>1. \A k \in 0 .. n : g[k] = f[k] /\ f[k] = IF k = 0 THEN h ELSE sort_chunk(f[k - 1], list[k])
    BY <1>2
  <2>2. ASSUME NEW k \in 0 .. n + 1
        PROVE  g[k] = turn[k]
    <3>1. CASE k = n + 1
      <4>1. n \in 0 .. n /\ k - 1 = n /\ k # 0
        BY <3>1
      <4>2. g[n] = f[n]
        BY <2>1, <4>1
      <4>3. g[k] = sort_chunk(f[n], list[n + 1])
        BY <3>1
      <4>4. turn[k] = sort_chunk(g[k - 1], list[k])
        BY <4>1
      <4> HIDE DEF g, turn
      <4> QED
        BY <3>1, <4>1, <4>2, <4>3, <4>4
    <3>2. CASE k # n + 1
      <4>1. k \in 0 .. n /\ (k # 0 => k - 1 \in 0 .. n)
        BY <3>2
      <4>2. turn[k] = IF k = 0 THEN h ELSE sort_chunk(g[k - 1], list[k])
        OBVIOUS
      <4> HIDE DEF g, turn
      <4> QED
        BY <2>1, <4>1, <4>2
    <3> QED
      BY <3>1, <3>2
  <2>3. g = turn
    BY <2>2
  <2> QED
    BY <2>3
<1>3. S = {}
  <2>1. SUFFICES ASSUME S # {} PROVE FALSE
    OBVIOUS
  <2> HIDE DEF Steps
  <2>2. PICK n \in S : \A m \in S : n <= m
    BY <2>1, LeastNatural
  <2>3. n \in Nat /\ ~ \E f : Steps(n, f)
    BY <2>2
  <2>4. n # 0
    BY <1>1, <2>3
  <2>5. n - 1 \in Nat /\ n - 1 \notin S /\ n - 1 + 1 = n
    BY <2>2, <2>3, <2>4
  <2>6. \E f : Steps(n - 1, f)
    BY <2>5
  <2> QED
    BY <1>2, <2>3, <2>5, <2>6
<1> QED
  <2>1. \E f : Steps(Len(list), f)
    <3> HIDE DEF Steps
    <3> QED
      BY <1>3
  <2> QED
    BY <2>1 DEF SortTurn

\* A heap after a search, and a chunk that is large enough or NULL
Found(g, p, h, C, t, n) ==
  /\ LinksOnly(g, h, C, t)
  /\ \E M : Part(g, C, t, M, {}) /\ (p # NULL => p \in Listed(M) /\ chunksize(g, p) >= n)

\* The first chunk that fits, as its list is searched (mm.c:264).
LEMMA FindsInBin ==
  ASSUME NEW h, NEW C, NEW t, NEW L, Part(h, C, t, L, {}), NEW b \in Bins, NEW n \in Int,
         NEW k, k = Smaller(h, L[b], n)
  PROVE  /\ k \in 0 .. Len(L[b])
         /\ find_chunk_from_bin(h, b, n) = IF k = Len(L[b]) THEN NULL ELSE L[b][k + 1]
         /\ k # Len(L[b]) => /\ k + 1 \in 1 .. Len(L[b]) /\ L[b][k + 1] \in Listed(L)
                             /\ chunksize(h, L[b][k + 1]) >= n
<1>1. /\ h \in Heaps /\ L[b] \in Seq(Cells) /\ List(h, b, L[b]) /\ Injective(L[b])
      /\ \A i \in 1 .. Len(L[b]) : L[b][i] \in Listed(L)
  BY ListedFacts DEF Part, Shape
<1>2. Chain(h, b) = L[b]
  BY <1>1, ChainIsList
<1>3. /\ k \in 0 .. Len(L[b])
      /\ k # Len(L[b]) => k + 1 \in 1 .. Len(L[b]) /\ chunksize(h, L[b][k + 1]) >= n
  BY <1>1, SmallerFacts
<1>4. find_chunk_from_bin(h, b, n) = IF k = Len(L[b]) THEN NULL ELSE L[b][k + 1]
  BY <1>2 DEF find_chunk_from_bin
<1> QED
  BY <1>1, <1>3, <1>4

\* After k turns the first k chunks are sorted into their bins.
LEMMA SortsAll ==
  ASSUME NEW h, NEW C, NEW t, NEW L, Part(h, C, t, L, {}), NEW l, l = L[UNSORTED], NEW f, f = SortTurn(h, l, f)
  PROVE  \A k \in 0 .. Len(l) : SortedUpTo(f[k], h, C, t, L, k)
<1> DEFINE S == {k \in 0 .. Len(l) : ~ SortedUpTo(f[k], h, C, t, L, k)}
<1>0. UNSORTED \in Bins
  BY DEF Bins
<1>1. l \in Seq(Cells) /\ Len(l) \in Nat
  BY <1>0, ListedFacts DEF Part
<1>2. f[0] = h /\ \A k \in 1 .. Len(l) : f[k] = sort_chunk(f[k - 1], l[k])
  <2>1. \A k \in 0 .. Len(l) : f[k] = IF k = 0 THEN h ELSE sort_chunk(f[k - 1], l[k])
    BY DEF SortTurn
  <2>2. 0 \in 0 .. Len(l) /\ \A k \in 1 .. Len(l) : k \in 0 .. Len(l) /\ k # 0
    BY <1>1
  <2> QED
    BY <2>1, <2>2
<1>3. SortedUpTo(h, h, C, t, L, 0)
  <2>1. Rest(L, L, 0)
    BY <1>1 DEF Rest
  <2>2. LinksOnly(h, h, C, t)
    BY LinksItself DEF Part
  <2> QED
    BY <2>1, <2>2 DEF SortedUpTo
<1>4. S = {}
  <2>1. SUFFICES ASSUME S # {} PROVE FALSE
    OBVIOUS
  <2>2. S \subseteq Nat
    BY <1>1
  <2> HIDE DEF S
  <2>3. PICK n \in S : \A m \in S : n <= m
    BY <2>1, <2>2, LeastNatural
  <2> USE DEF S
  <2>4. n \in 0 .. Len(l) /\ ~ SortedUpTo(f[n], h, C, t, L, n)
    BY <2>3
  <2>5. n # 0
    BY <1>2, <1>3, <2>4
  <2>6. PICK i \in Nat : i = n - 1
    BY <1>1, <2>4, <2>5
  <2>7. i < Len(l) /\ i + 1 = n /\ i \in 0 .. Len(l) /\ n \in 1 .. Len(l) /\ ~ (n <= i)
    BY <1>1, <2>4, <2>6
  <2>8. SortedUpTo(f[i], h, C, t, L, i)
    BY <2>3, <2>7
  <2>9. f[n] = sort_chunk(f[i], L[UNSORTED][i + 1])
    BY <1>2, <2>6, <2>7
  <2>10. SortedUpTo(f[n], h, C, t, L, i + 1)
    BY <1>1, <2>7, <2>8, <2>9, SortsOne
  <2> QED
    BY <2>4, <2>7, <2>10
<1> QED
  BY <1>4

\* find_chunk_from_unsorted sorts chunks into their bins (mm.c:281).
LEMMA FindsUnsorted ==
  ASSUME NEW h, NEW C, NEW t, NEW L, Part(h, C, t, L, {}), NEW n \in Int,
         NEW r, r = find_chunk_from_unsorted(h, n)
  PROVE  Found(r.h, r.p, h, C, t, n)
<1> DEFINE l == L[UNSORTED]
           f == CHOOSE w : w = SortTurn(h, l, w)
           k == Smaller(h, l, n)
<1>0. UNSORTED \in Bins
  BY DEF Bins
<1>1. /\ h \in Heaps /\ l \in Seq(Cells) /\ Len(l) \in Nat /\ List(h, UNSORTED, l) /\ Injective(l)
  BY <1>0, ListedFacts DEF Part, Shape
<1>2. Chain(h, UNSORTED) = l
  BY <1>0, <1>1, ChainIsList
<1>3. r = [h |-> f[k], p |-> find_chunk_from_bin(h, UNSORTED, n)]
  <2>1. r = LET list == Chain(h, UNSORTED)
                sorted == CHOOSE w : w = SortTurn(h, list, w)
            IN  [h |-> sorted[Smaller(h, list, n)], p |-> find_chunk_from_bin(h, UNSORTED, n)]
    BY DEF find_chunk_from_unsorted, SortTurn
  <2> QED
    BY <1>2, <2>1
<1>4. f = SortTurn(h, l, f)
  BY <1>1, SortingExists
<1> HIDE DEF f
<1>5. /\ k \in 0 .. Len(l)
      /\ find_chunk_from_bin(h, UNSORTED, n) = IF k = Len(l) THEN NULL ELSE l[k + 1]
      /\ k # Len(l) => k + 1 \in 1 .. Len(l) /\ l[k + 1] \in Listed(L) /\ chunksize(h, l[k + 1]) >= n
  BY <1>0, FindsInBin
<1> HIDE DEF k
<1>6. SortedUpTo(f[k], h, C, t, L, k)
  BY <1>4, <1>5, SortsAll
<1>7. PICK M : Part(f[k], C, t, M, {}) /\ Rest(M, L, k)
  BY <1>6 DEF SortedUpTo
<1>8. LinksOnly(f[k], h, C, t)
  BY <1>6 DEF SortedUpTo
<1>9. ASSUME k # Len(l)
      PROVE  l[k + 1] \in Listed(M) /\ chunksize(f[k], l[k + 1]) >= n
  <2>1. 1 \in 1 .. Len(l) - k /\ 1 + k = k + 1
    BY <1>1, <1>5, <1>9
  <2>2. 1 \in 1 .. Len(M[UNSORTED]) /\ M[UNSORTED][1] = l[k + 1]
    BY <1>7, <2>1 DEF Rest
  <2>3. l[k + 1] \in Listed(M)
    BY <1>0, <1>7, <2>2, ListedFacts DEF Part
  <2>4. l[k + 1] \in C
    BY <1>7, <2>3, ListedChunks DEF Part
  <2> QED
    BY <1>5, <1>8, <1>9, <2>3, <2>4 DEF LinksOnly
<1> QED
  BY <1>3, <1>5, <1>7, <1>8, <1>9 DEF Found

\* find_chunk returns NULL or a free chunk that is large enough (mm.c:240).
LEMMA Finds ==
  ASSUME NEW h, NEW C, NEW t, NEW L, Part(h, C, t, L, {}), NEW n \in Int,
         NEW r, r = find_chunk(h, n)
  PROVE  Found(r.h, r.p, h, C, t, n)
<1> DEFINE fits == {bin \in Bins : bin >= calculate_bin(n) /\ find_chunk_from_bin(h, bin, n) # NULL}
<1>0. ASSUME NEW b \in Bins, find_chunk_from_bin(h, b, n) # NULL
      PROVE  /\ find_chunk_from_bin(h, b, n) \in Listed(L)
             /\ chunksize(h, find_chunk_from_bin(h, b, n)) >= n
  <2> DEFINE k == Smaller(h, L[b], n)
  <2>2. /\ k \in 0 .. Len(L[b])
        /\ find_chunk_from_bin(h, b, n) = IF k = Len(L[b]) THEN NULL ELSE L[b][k + 1]
        /\ k # Len(L[b]) => k + 1 \in 1 .. Len(L[b]) /\ L[b][k + 1] \in Listed(L) /\ chunksize(h, L[b][k + 1]) >= n
    BY FindsInBin
  <2> HIDE DEF k
  <2> QED
    BY <1>0, <2>2
<1>1. CASE fits = {}
  <2>1. r = find_chunk_from_unsorted(h, n)
    BY <1>1 DEF find_chunk
  <2> QED
    BY <2>1, FindsUnsorted
<1>2. CASE fits # {}
  <2> DEFINE bin == CHOOSE b \in fits : \A other \in fits : b <= other
  <2>1. r = [h |-> h, p |-> find_chunk_from_bin(h, bin, n)]
    BY <1>2 DEF find_chunk
  <2>2. bin \in fits
    <3>1. fits \subseteq Nat
      BY DEF Bins, UNSORTED, SMALL, MIDDLE, LARGE, HUGE
    <3> HIDE DEF fits
    <3>2. \E b \in fits : \A other \in fits : b <= other
      BY <1>2, <3>1, LeastNatural
    <3> QED
      BY <3>2
  <2>3. bin \in Bins
    BY <2>2
  <2> HIDE DEF bin
  <2>4. find_chunk_from_bin(h, bin, n) # NULL =>
          find_chunk_from_bin(h, bin, n) \in Listed(L) /\ chunksize(h, find_chunk_from_bin(h, bin, n)) >= n
    BY <1>0, <2>3
  <2>5. LinksOnly(h, h, C, t)
    BY LinksItself DEF Part
  <2> QED
    BY <2>1, <2>4, <2>5 DEF Found
<1> QED
  BY <1>1, <1>2

\* g differs from h in the header of the chunk c, but not in its size
AtCell(g, h, c) ==
  /\ SameBounds(g, h)
  /\ \A a \in Cells : a # c => size(g, a) = size(h, a)
  /\ \A y \in Slots : y # c => prev_size(g, y) = prev_size(h, y)
  /\ chunksize(g, c) = chunksize(h, c)

\* Two writes to one cell are within this cell.
LEMMA AtCellAgain ==
  ASSUME NEW f, NEW g, NEW h, NEW c, AtCell(f, g, c), AtCell(g, h, c)
  PROVE  AtCell(f, h, c)
BY DEF AtCell, SameBounds

\* A write to a header is within its cell.
LEMMA HeaderAtCell ==
  ASSUME NEW g, NEW h, NEW c, Header(g, h, c, chunksize(h, c))
  PROVE  AtCell(g, h, c)
BY DEF AtCell, Header

\* A write to prev_size is within its cell.
LEMMA PrevSizeAtCell ==
  ASSUME NEW h \in Heaps, NEW c \in Cells, NEW v \in Int, NEW g, g = set_prev_size(h, c, v)
  PROVE  AtCell(g, h, c) /\ size(g, c) = size(h, c) /\ prev_size(g, c) = v
<1>1. c \in Slots
  BY DEF Slots
<1>2. /\ SameBounds(g, h)
      /\ \A y \in Slots : prev_size(g, y) = IF y = c THEN v ELSE prev_size(h, y)
      /\ \A a \in Cells : size(g, a) = size(h, a)
  BY <1>1, WriteFirst
<1>3. size(g, c) = size(h, c)
  BY <1>2
<1> QED
  BY <1>1, <1>2, <1>3, SameHeader DEF AtCell

\* The links of a chunk that is listed are no chunk's header.
LEMMA LinksApart ==
  ASSUME NEW h, NEW C, NEW t, NEW L, NEW limbo, Part(h, C, t, L, limbo), NEW p \in Listed(L), NEW c \in C
  PROVE  c # p + 8
<1>1. p \in C /\ chunksize(h, p) >= 16 /\ Shape(h, C, t)
  BY ListedChunks DEF Part
<1>2. p \in Nat /\ c \in Cells /\ chunksize(h, p) \in Int
  BY <1>1, Chunk
<1>3. SUFFICES ASSUME c = p + 8 PROVE FALSE
  OBVIOUS
<1>4. p < c /\ c < p + chunksize(h, p)
  BY <1>1, <1>2, <1>3
<1> QED
  BY <1>1, <1>2, <1>4, Inside

\* What a change of tags leaves
CellKept(g, h, C, t, c) ==
  /\ Shape(g, C, t) /\ g.top = h.top /\ g.brk = h.brk
  /\ \A d \in C : /\ chunksize(g, d) = chunksize(h, d)
                  /\ d # c => /\ size(g, d) = size(h, d) /\ prev_size(g, d) = prev_size(h, d)
                              /\ is_valid(g, d) <=> is_valid(h, d)
                              /\ prev_inuse(g, d) <=> prev_inuse(h, d)
  /\ \A q \in C : (q + chunksize(h, q) # c \/ prev_size(g, c) = prev_size(h, c)) => Kept(g, h, q)

\* Writes to the tags of a chunk leave the chunks where they are.
LEMMA TagsShape ==
  ASSUME NEW h, NEW C, NEW t, Shape(h, C, t), NEW c \in C, NEW g, AtCell(g, h, c),
         c = mem_heap_lo => prev_inuse(g, c)
  PROVE  CellKept(g, h, C, t, c)
<1>1. ASSUME NEW d \in C
      PROVE  /\ d \in Cells /\ d \in Slots /\ chunksize(g, d) = chunksize(h, d)
             /\ d # c => /\ size(g, d) = size(h, d) /\ prev_size(g, d) = prev_size(h, d)
                         /\ is_valid(g, d) <=> is_valid(h, d)
                         /\ prev_inuse(g, d) <=> prev_inuse(h, d)
  BY Chunk, SameHeader DEF AtCell, Slots
<1>2. g \in Heaps /\ g.top = h.top /\ g.brk = h.brk
  BY DEF AtCell, SameBounds
<1>3. prev_inuse(g, mem_heap_lo)
  <2>1. mem_heap_lo \in C /\ prev_inuse(h, mem_heap_lo)
    BY DEF Shape
  <2> QED
    BY <1>1, <2>1
<1>4. Shape(g, C, t)
  BY <1>1, <1>2, <1>3 DEF Shape
<1>5. ASSUME NEW q \in C, q + chunksize(h, q) # c \/ prev_size(g, c) = prev_size(h, c)
      PROVE  Kept(g, h, q)
  <2>1. ASSUME NEW a \in Cells, q < a, a < q + chunksize(h, q)
        PROVE  size(g, a) = size(h, a)
    <3>1. a # c
      BY <2>1, Inside
    <3> QED
      BY <3>1 DEF AtCell
  <2>2. ASSUME NEW a \in Cells, q < a, a <= q + chunksize(h, q)
        PROVE  prev_size(g, a) = prev_size(h, a)
    <3>1. a \in Slots /\ a \in Nat /\ q \in Nat /\ chunksize(h, q) \in Int
      BY Chunk, CellNumbers DEF Slots
    <3>2. CASE a = q + chunksize(h, q)
      BY <1>5, <3>1, <3>2 DEF AtCell
    <3>3. CASE a < q + chunksize(h, q)
      <4>1. a # c
        BY <2>2, <3>3, Inside
      <4> QED
        BY <3>1, <4>1 DEF AtCell
    <3> QED
      BY <2>2, <3>1, <3>2, <3>3
  <2> QED
    BY <2>1, <2>2 DEF Kept
<1> QED
  BY <1>1, <1>2, <1>4, <1>5 DEF CellKept

\* A listed chunk has room for its links.
LEMMA ListedLinks ==
  ASSUME NEW h, NEW L, Lists(h, L), NEW p \in Listed(L)
  PROVE  p + 8 \in Cells
<1>1. PICK b \in Bins : \E k \in 1 .. Len(L[b]) : L[b][k] = p
  BY DEF Listed
<1>2. PICK k \in 1 .. Len(L[b]) : L[b][k] = p
  BY <1>1
<1>3. List(h, b, L[b])
  BY DEF Lists
<1> QED
  BY <1>2, <1>3 DEF List

\* Writes to the tags of a chunk leave the lists alone.
LEMMA TagsLists ==
  ASSUME NEW h, NEW C, NEW t, NEW L, NEW limbo, Part(h, C, t, L, limbo), NEW c \in C, NEW g, AtCell(g, h, c)
  PROVE  Lists(g, L)
<1>1. Lists(h, L) /\ Shape(h, C, t) /\ FreeListed(h, C, t, L, limbo)
  BY DEF Part
<1>2. \A b \in Bins : prev_size(g, b) = prev_size(h, b)
  <2>1. c \in Cells
    BY <1>1, Chunk
  <2>2. \A b \in Bins : b \in Slots /\ b < 40
    BY DEF Slots, Bins, UNSORTED, SMALL, MIDDLE, LARGE, HUGE
  <2>3. \A b \in Bins : b # c
    BY <2>1, <2>2, CellNumbers
  <2> QED
    BY <2>2, <2>3 DEF AtCell
<1>3. ASSUME NEW p \in Listed(L)
      PROVE  /\ size(g, p + 8) = size(h, p + 8)
             /\ prev_size(g, p + 8) = prev_size(h, p + 8)
             /\ chunksize(g, p) = chunksize(h, p)
  <2>1. p \in C /\ p \in Cells /\ p + 8 # c
    BY <1>1, ListedChunks, LinksApart, Chunk
  <2>2. p + 8 \in Cells
    BY <1>1, ListedLinks
  <2>3. p + 8 \in Slots
    BY <2>2 DEF Slots
  <2> QED
    BY <2>1, <2>2, <2>3, SameHeader DEF AtCell
<1> QED
  BY <1>1, <1>2, <1>3, ListsFrame

\* A chunk in no list may be one that is being worked on.
LEMMA LimboMore ==
  ASSUME NEW h, NEW C, NEW t, NEW L, NEW limbo, Part(h, C, t, L, limbo), NEW p, p \notin Listed(L)
  PROVE  Part(h, C, t, L, limbo \cup {p})
BY DEF Part, FreeListed

\* A chunk that was worked on is done when it is the top or in use.
LEMMA LimboLess ==
  ASSUME NEW h, NEW C, NEW t, NEW L, NEW p, Part(h, C, t, L, {p}), p = t \/ is_valid(h, p)
  PROVE  Part(h, C, t, L, {})
BY DEF Part, FreeListed

\* What the chunk after p says of p
Tag(h, p) == /\ prev_inuse(h, p + chunksize(h, p)) <=> is_valid(h, p)
             /\ ~ is_valid(h, p) => prev_size(h, p + chunksize(h, p)) = chunksize(h, p)

\* The tags of a heap are those of its chunks.
LEMMA TaggedIs == \A h, C, t, X : Tagged(h, C, t, X) <=> \A p \in C : p # t /\ p \notin X => Tag(h, p)
BY DEF Tagged, Tag

\* The chunk after p, which comes after no other.
LEMMA NextChunk ==
  ASSUME NEW h, NEW C, NEW t, Shape(h, C, t), NEW p \in C, p # t, NEW c, c = next_chunk(h, p)
  PROVE  /\ c = p + chunksize(h, p) /\ c \in C /\ c # p /\ c # mem_heap_lo /\ p < c
         /\ \A q \in C : q # p => q + chunksize(h, q) # c
<1>1. c = p + chunksize(h, p) /\ c \in C
  BY Chunk DEF next_chunk
<1>2. p \in Nat /\ 40 <= p /\ chunksize(h, p) \in Int /\ chunksize(h, p) >= 8
  BY Chunk
<1>3. ASSUME NEW q \in C, q # p, q + chunksize(h, q) = c
      PROVE  FALSE
  <2>1. q \in Nat /\ chunksize(h, q) \in Int /\ chunksize(h, q) >= 8
    BY Chunk
  <2>2. q < p => q + chunksize(h, q) <= p
    BY Chunk
  <2>3. p < q => p + chunksize(h, p) <= q
    BY Chunk
  <2> QED
    BY <1>1, <1>2, <1>3, <2>1, <2>2, <2>3
<1> QED
  BY <1>1, <1>2, <1>3, Constants

\* g is h with c used or freed; the chunk after it may not know yet
Switched(g, h, C, t, L, c) ==
  /\ Part(g, C, t, L, {c}) /\ g.top = h.top /\ g.brk = h.brk
  /\ \A X : Tagged(h, C, t, X) => Tagged(g, C, t, X \cup {c})
  /\ Keeps(g, C, h, C, {c})
  /\ \A d \in C : /\ chunksize(g, d) = chunksize(h, d)
                  /\ d # c => (is_valid(g, d) <=> is_valid(h, d))
                  /\ prev_inuse(g, d) <=> prev_inuse(h, d)
  /\ \A q \in C : Kept(g, h, q)

\* The flag VALID of a chunk that is in no list may change.
LEMMA Switches ==
  ASSUME NEW h, NEW C, NEW t, NEW L, NEW c \in C, Part(h, C, t, L, {c}), NEW g,
         Header(g, h, c, chunksize(h, c)), prev_inuse(g, c) <=> prev_inuse(h, c)
  PROVE  Switched(g, h, C, t, L, c)
<1>1. Shape(h, C, t) /\ Lists(h, L) /\ FreeListed(h, C, t, L, {c}) /\ AtCell(g, h, c) /\ c \in Slots
  BY HeaderAtCell, Chunk DEF Part, Slots
<1>2. c = mem_heap_lo => prev_inuse(g, c)
  BY <1>1 DEF Shape
<1>3. CellKept(g, h, C, t, c)
  BY <1>1, <1>2, TagsShape
<1>4. Lists(g, L)
  BY <1>1, TagsLists
<1>5. prev_size(g, c) = prev_size(h, c)
  BY <1>1 DEF Header
<1>6. \A q \in C : Kept(g, h, q)
  BY <1>3, <1>5 DEF CellKept
<1>7. Keeps(g, C, h, C, {c})
  BY <1>3, <1>6 DEF Keeps, CellKept
<1>8. \A d \in C : /\ chunksize(g, d) = chunksize(h, d)
                   /\ d # c => (is_valid(g, d) <=> is_valid(h, d))
                   /\ prev_inuse(g, d) <=> prev_inuse(h, d)
                   /\ prev_size(g, d) = prev_size(h, d)
  BY <1>3, <1>5 DEF CellKept
<1>9. FreeListed(g, C, t, L, {c})
  BY <1>1, <1>8 DEF FreeListed
<1>10. ASSUME NEW X, Tagged(h, C, t, X)
       PROVE  Tagged(g, C, t, X \cup {c})
  <2>1. \A p \in C : p # t => p + chunksize(h, p) \in C
    BY <1>1 DEF Shape
  <2> QED
    BY <1>8, <1>10, <2>1 DEF Tagged
<1> QED
  BY <1>1, <1>3, <1>4, <1>6, <1>7, <1>8, <1>9, <1>10 DEF Switched, Part, CellKept

\* g is h but for what the chunk after p says of p
Told(g, h, C, t, p) ==
  /\ Shape(g, C, t) /\ g.top = h.top /\ g.brk = h.brk
  /\ \A L, limbo : Part(h, C, t, L, limbo) => Part(g, C, t, L, limbo)
  /\ \A X : Tagged(h, C, t, X) => /\ Tagged(g, C, t, X \cup {p})
                                  /\ Tag(g, p) => Tagged(g, C, t, X \ {p})
  /\ Keeps(g, C, h, C, {p})
  /\ \A d \in C : /\ chunksize(g, d) = chunksize(h, d)
                  /\ is_valid(g, d) <=> is_valid(h, d)

\* The chunk after p may tell something else of p.
LEMMA Tells ==
  ASSUME NEW h, NEW C, NEW t, Shape(h, C, t), NEW p \in C, p # t, NEW c, c = p + chunksize(h, p),
         NEW g, AtCell(g, h, c), is_valid(g, c) <=> is_valid(h, c)
  PROVE  /\ Told(g, h, C, t, p)
         /\ prev_size(g, c) = prev_size(h, c) => Kept(g, h, p)
<1>1. c \in C /\ c # mem_heap_lo /\ \A q \in C : q # p => q + chunksize(h, q) # c
  <2>1. c = next_chunk(h, p)
    BY DEF next_chunk
  <2> QED
    BY <2>1, NextChunk
<1>2. CellKept(g, h, C, t, c)
  BY <1>1, TagsShape
<1>3. \A d \in C : /\ chunksize(g, d) = chunksize(h, d)
                   /\ is_valid(g, d) <=> is_valid(h, d)
  BY <1>2 DEF CellKept
<1>4. ASSUME NEW L, NEW limbo, Part(h, C, t, L, limbo)
      PROVE  Part(g, C, t, L, limbo)
  <2>1. Lists(g, L)
    BY <1>1, <1>4, TagsLists
  <2>2. FreeListed(g, C, t, L, limbo)
    BY <1>3, <1>4 DEF Part, FreeListed
  <2> QED
    BY <1>2, <2>1, <2>2 DEF Part, CellKept
<1>5. Keeps(g, C, h, C, {p})
  <2>1. \A q \in C \ {p} : Kept(g, h, q)
    BY <1>1, <1>2 DEF CellKept
  <2> QED
    BY <1>3, <2>1 DEF Keeps
<1>6. ASSUME NEW q \in C, q # t, q # p, Tag(h, q)
      PROVE  Tag(g, q)
  <2>1. q + chunksize(h, q) \in C /\ q + chunksize(h, q) # c
    BY <1>1, <1>6 DEF Shape
  <2> QED
    BY <1>2, <1>3, <1>6, <2>1 DEF CellKept, Tag
<1>7. ASSUME NEW X, Tagged(h, C, t, X)
      PROVE  /\ Tagged(g, C, t, X \cup {p})
             /\ Tag(g, p) => Tagged(g, C, t, X \ {p})
  BY <1>6, <1>7, TaggedIs
<1>8. prev_size(g, c) = prev_size(h, c) => Kept(g, h, p)
  BY <1>2 DEF CellKept
<1> QED
  BY <1>2, <1>3, <1>4, <1>5, <1>7, <1>8 DEF Told, CellKept

\* The chunk p is in use now, or unused, and nothing else has changed
Marked(g, h, C, t, L, p, limbo) ==
  /\ Part(g, C, t, L, limbo) /\ Tagged(g, C, t, {}) /\ Keeps(g, C, h, C, {p})
  /\ g.top = h.top /\ g.brk = h.brk /\ chunksize(g, p) = chunksize(h, p)
  /\ is_valid(g, p) <=> limbo = {}
  /\ t # p => (is_valid(g, t) <=> is_valid(h, t))

\* mm_malloc marks the chunk it found (mm.c:488).
LEMMA MarksInUse ==
  ASSUME NEW h, NEW C, NEW t, NEW L, NEW p \in C, p # t, Part(h, C, t, L, {p}), Tagged(h, C, t, {p}),
         NEW g, g = InUse(h, p)
  PROVE  Marked(g, h, C, t, L, p, {})
<1> DEFINE e == set_valid(h, p)
           c == next_chunk(h, p)
<1>1. h \in Heaps /\ Shape(h, C, t) /\ p \in Cells /\ t \in C
  BY Chunk DEF Part, Shape
<1>2. /\ Header(e, h, p, chunksize(h, p)) /\ is_valid(e, p)
      /\ prev_inuse(e, p) <=> prev_inuse(h, p)
  BY <1>1, SetValid
<1>3. Switched(e, h, C, t, L, p)
  <2> HIDE DEF e
  <2> QED
    BY <1>2, Switches
<1>4. g = set_prev_inuse(e, c)
  BY DEF InUse
<1> HIDE DEF e
<1>5. chunksize(e, p) = chunksize(h, p) /\ Shape(e, C, t) /\ e \in Heaps
  BY <1>3 DEF Switched, Part, Shape
<1>6. c = p + chunksize(e, p) /\ c \in C /\ c \in Cells
  BY <1>1, <1>5, NextChunk, Chunk
<1> HIDE DEF c
<1>7. /\ Header(g, e, c, chunksize(e, c)) /\ prev_inuse(g, c)
      /\ is_valid(g, c) <=> is_valid(e, c)
  BY <1>4, <1>5, <1>6, SetPrevInuse
<1>8. AtCell(g, e, c)
  BY <1>7, HeaderAtCell
<1>9. Told(g, e, C, t, p)
  BY <1>5, <1>6, <1>7, <1>8, Tells
<1>10. is_valid(g, p) /\ chunksize(g, p) = chunksize(h, p) /\ Tag(g, p)
  BY <1>2, <1>5, <1>6, <1>7, <1>9 DEF Told, Tag
<1>11. Tagged(g, C, t, {})
  <2>1. Tagged(e, C, t, {p} \cup {p}) /\ ({p} \cup {p}) \ {p} = {}
    BY <1>3 DEF Switched
  <2> QED
    BY <1>9, <1>10, <2>1 DEF Told
<1>12. Keeps(g, C, h, C, {p})
  <2>1. Keeps(g, C, e, C, {p}) /\ Keeps(e, C, h, C, {p})
    BY <1>3, <1>9 DEF Told, Switched
  <2> QED
    BY <2>1, KeepsAgain
<1>13. Part(g, C, t, L, {})
  <2>1. Part(g, C, t, L, {p})
    BY <1>3, <1>9 DEF Told, Switched
  <2> QED
    BY <1>10, <2>1, LimboLess
<1>14. is_valid(g, t) <=> is_valid(h, t)
  BY <1>1, <1>3, <1>9 DEF Told, Switched
<1>15. g.top = h.top /\ g.brk = h.brk
  BY <1>3, <1>9 DEF Told, Switched
<1> QED
  BY <1>10, <1>11, <1>12, <1>13, <1>14, <1>15 DEF Marked

\* mm_free marks what it merged as unused (mm.c:504).
LEMMA MarksUnused ==
  ASSUME NEW h, NEW C, NEW t, NEW L, NEW p \in C, Part(h, C, t, L, {p}), Tagged(h, C, t, {p}),
         NEW g, g = Unused(h, p)
  PROVE  Marked(g, h, C, t, L, p, {p})
<1> DEFINE e == clear_valid(h, p)
           c == next_chunk(e, p)
           f == set_prev_size(e, c, chunksize(e, p))
<1>1. h \in Heaps /\ Shape(h, C, t) /\ p \in Cells /\ t \in C
  BY Chunk DEF Part, Shape
<1>2. /\ Header(e, h, p, chunksize(h, p)) /\ ~ is_valid(e, p)
      /\ prev_inuse(e, p) <=> prev_inuse(h, p)
  BY <1>1, ClearValid
<1>3. Switched(e, h, C, t, L, p)
  <2> HIDE DEF e
  <2> QED
    BY <1>2, Switches
<1>4. g = IF c < e.brk - 1 THEN clear_prev_inuse(f, c) ELSE e
  BY DEF Unused, update_prev_info
<1> HIDE DEF e
<1>5. chunksize(e, p) = chunksize(h, p) /\ Shape(e, C, t) /\ e \in Heaps /\ c = p + chunksize(e, p)
  BY <1>3 DEF Switched, Part, Shape, next_chunk
<1>6. Tagged(e, C, t, {p})
  <2>1. Tagged(e, C, t, {p} \cup {p}) /\ {p} \cup {p} = {p}
    BY <1>3 DEF Switched
  <2> QED
    BY <2>1
<1>7. CASE p = t
  <2>1. c = e.brk /\ e.brk \in Int
    BY <1>5, <1>7 DEF Shape, Heaps
  <2>2. g = e
    BY <1>4, <2>1
  <2>3. Tagged(e, C, t, {})
    BY <1>6, <1>7 DEF Tagged
  <2> QED
    BY <1>2, <1>3, <1>5, <1>7, <2>2, <2>3 DEF Switched, Marked
<1>8. CASE p # t
  <2>1. c \in C /\ c \in Cells
    BY <1>5, <1>8, NextChunk, Chunk
  <2>2. c < e.brk - 1
    <3>1. /\ c + chunksize(e, c) <= e.brk /\ chunksize(e, c) >= 8 /\ c \in Nat
          /\ chunksize(e, c) \in Int /\ e.brk \in Int
      BY <1>5, <2>1, Chunk
    <3> QED
      BY <3>1
  <2>3. g = clear_prev_inuse(f, c)
    BY <1>4, <2>2
  <2>4. chunksize(e, p) \in Int
    BY <1>5, Chunk
  <2> HIDE DEF c
  <2>5. AtCell(f, e, c) /\ size(f, c) = size(e, c) /\ prev_size(f, c) = chunksize(e, p)
    BY <1>5, <2>1, <2>4, PrevSizeAtCell
  <2> HIDE DEF f
  <2>6. f \in Heaps
    BY <2>5 DEF AtCell, SameBounds
  <2>7. /\ Header(g, f, c, chunksize(f, c)) /\ ~ prev_inuse(g, c)
        /\ is_valid(g, c) <=> is_valid(f, c)
    BY <2>1, <2>3, <2>6, ClearPrevInuse
  <2>8. AtCell(g, e, c) /\ (is_valid(g, c) <=> is_valid(e, c)) /\ prev_size(g, c) = chunksize(e, p)
    <3>1. AtCell(g, f, c)
      BY <2>7, HeaderAtCell
    <3>2. c \in Slots
      BY <2>1 DEF Slots
    <3> QED
      BY <2>5, <2>7, <3>1, <3>2, AtCellAgain, SameHeader DEF Header
  <2>9. Told(g, e, C, t, p)
    BY <1>5, <1>8, <2>8, Tells
  <2>10. ~ is_valid(g, p) /\ chunksize(g, p) = chunksize(h, p) /\ Tag(g, p)
    BY <1>2, <1>5, <2>7, <2>8, <2>9 DEF Told, Tag
  <2>11. Tagged(g, C, t, {})
    <3>1. {p} \ {p} = {}
      OBVIOUS
    <3> QED
      BY <1>6, <2>9, <2>10, <3>1 DEF Told
  <2>12. Keeps(g, C, h, C, {p})
    <3>1. Keeps(g, C, e, C, {p}) /\ Keeps(e, C, h, C, {p})
      BY <1>3, <2>9 DEF Told, Switched
    <3> QED
      BY <3>1, KeepsAgain
  <2>13. /\ Part(g, C, t, L, {p}) /\ g.top = h.top /\ g.brk = h.brk
         /\ is_valid(g, t) <=> is_valid(h, t)
    BY <1>1, <1>3, <1>8, <2>9 DEF Told, Switched
  <2> QED
    BY <2>10, <2>11, <2>12, <2>13 DEF Marked
<1> QED
  BY <1>7, <1>8

\* A free chunk that is free still is nobody's data.
LEMMA KeepsLess ==
  ASSUME NEW g, NEW D, NEW h, NEW C, NEW E, NEW x, Keeps(g, D, h, C, E),
         ~ is_valid(h, x), ~ is_valid(g, x)
  PROVE  Keeps(g, D, h, C, E \ {x})
BY DEF Keeps

\* What a write to the size of the chunk p leaves
LEMMA SizeLists ==
  ASSUME NEW h, NEW C, NEW t, NEW L, NEW limbo, Part(h, C, t, L, limbo), NEW p \in C, p \notin Listed(L),
         NEW g, NEW n, Header(g, h, p, n)
  PROVE  /\ Lists(g, L)
         /\ \A q \in C : Kept(g, h, q)
         /\ \A d \in C \ {p} : /\ size(g, d) = size(h, d) /\ prev_size(g, d) = prev_size(h, d)
                               /\ chunksize(g, d) = chunksize(h, d)
                               /\ is_valid(g, d) <=> is_valid(h, d)
                               /\ prev_inuse(g, d) <=> prev_inuse(h, d)
         /\ g \in Heaps /\ g.top = h.top /\ g.brk = h.brk
         /\ prev_size(g, p) = prev_size(h, p)
<1>1. Lists(h, L) /\ Shape(h, C, t) /\ FreeListed(h, C, t, L, limbo)
  BY DEF Part
<1>2. \A d \in C : d \in Cells /\ d \in Slots
  BY <1>1, Chunk DEF Slots
<1>3. \A b \in Bins : prev_size(g, b) = prev_size(h, b)
  BY DEF Header, Slots
<1>4. \A d \in C \ {p} : /\ size(g, d) = size(h, d) /\ prev_size(g, d) = prev_size(h, d)
                         /\ chunksize(g, d) = chunksize(h, d)
                         /\ is_valid(g, d) <=> is_valid(h, d)
                         /\ prev_inuse(g, d) <=> prev_inuse(h, d)
  BY <1>2, SameHeader DEF Header
<1>5. ASSUME NEW c \in Listed(L)
      PROVE  /\ size(g, c + 8) = size(h, c + 8)
             /\ prev_size(g, c + 8) = prev_size(h, c + 8)
             /\ chunksize(g, c) = chunksize(h, c)
  <2>1. c \in C /\ c + 8 # p /\ c # p
    BY <1>1, ListedChunks, LinksApart
  <2>2. c + 8 \in Cells
    BY <1>1, ListedLinks
  <2>3. c + 8 \in Slots
    BY <2>2 DEF Slots
  <2> QED
    BY <1>4, <2>1, <2>2, <2>3 DEF Header
<1>6. Lists(g, L)
  BY <1>1, <1>3, <1>5, ListsFrame
<1>7. ASSUME NEW q \in C
      PROVE  Kept(g, h, q)
  <2>1. ASSUME NEW a \in Cells, q < a, a < q + chunksize(h, q)
        PROVE  size(g, a) = size(h, a)
    <3>1. a # p
      BY <1>1, <2>1, Inside
    <3> QED
      BY <3>1 DEF Header
  <2> QED
    BY <2>1 DEF Kept, Header, Slots
<1> QED
  BY <1>2, <1>4, <1>6, <1>7 DEF Header, SameBounds

\* The chunk p and the one after it became one chunk
Merged(g, h, C, t, L, p, q, D, s) ==
  /\ Part(g, D, s, L, {p}) /\ Tagged(g, D, s, {p}) /\ p \in D
  /\ g.top = h.top /\ g.brk = h.brk
  /\ Keeps(g, D, h, C, {p, q}) /\ Kept(g, h, p)
  /\ chunksize(g, p) = chunksize(h, p) + chunksize(h, q)
  /\ is_valid(g, p) <=> is_valid(h, p)
  /\ \A d \in D \ {p} : /\ size(g, d) = size(h, d) /\ prev_size(g, d) = prev_size(h, d)
                        /\ chunksize(g, d) = chunksize(h, d)
                        /\ is_valid(g, d) <=> is_valid(h, d)
                        /\ prev_inuse(g, d) <=> prev_inuse(h, d)
  /\ prev_inuse(g, p) <=> prev_inuse(h, p)
  /\ prev_size(g, p) = prev_size(h, p)

\* Extend makes one chunk of two, and neither was in a list (mm.c:387).
LEMMA Merges ==
  ASSUME NEW h, NEW C, NEW t, NEW L, NEW p \in C, p # t, NEW q, q = p + chunksize(h, p),
         Part(h, C, t, L, {p, q}), Tagged(h, C, t, {p, q}),
         NEW g, g = Extend(h, p, q),
         NEW D, D = C \ {q}, NEW s, s = IF q = t THEN p ELSE t
  PROVE  Merged(g, h, C, t, L, p, q, D, s)
<1>1. /\ Shape(h, C, t) /\ Lists(h, L) /\ FreeListed(h, C, t, L, {p, q}) /\ h \in Heaps /\ t \in C
      /\ p \notin Listed(L)
  BY ListedChunks DEF Part, Shape
<1>2. /\ q \in C /\ q # p /\ q # mem_heap_lo /\ p < q
      /\ \A d \in C : d # p => d + chunksize(h, d) # q
  <2>1. q = next_chunk(h, p)
    BY DEF next_chunk
  <2> QED
    BY <1>1, <2>1, NextChunk
<1>3. /\ p \in Cells /\ p \in Nat /\ chunksize(h, p) \in Int /\ chunksize(h, p) >= 8
      /\ q \in Nat /\ chunksize(h, q) \in Int /\ chunksize(h, q) >= 8 /\ chunksize(h, q) % 8 = 0
      /\ q + chunksize(h, q) <= h.brk
  BY <1>1, <1>2, Chunk
<1>4. /\ Header(g, h, p, chunksize(h, p) + chunksize(h, q))
      /\ is_valid(g, p) <=> is_valid(h, p)
      /\ prev_inuse(g, p) <=> prev_inuse(h, p)
  BY <1>1, <1>3, SizeGrown DEF Extend
<1>5. /\ Lists(g, L) /\ \A d \in C : Kept(g, h, d)
      /\ \A d \in C \ {p} : /\ size(g, d) = size(h, d) /\ prev_size(g, d) = prev_size(h, d)
                            /\ chunksize(g, d) = chunksize(h, d)
                            /\ is_valid(g, d) <=> is_valid(h, d)
                            /\ prev_inuse(g, d) <=> prev_inuse(h, d)
      /\ g \in Heaps /\ g.top = h.top /\ g.brk = h.brk /\ prev_size(g, p) = prev_size(h, p)
  BY <1>1, <1>4, SizeLists
<1>6. chunksize(g, p) = chunksize(h, p) + chunksize(h, q)
  BY <1>4 DEF Header
<1>7. p + chunksize(g, p) = q + chunksize(h, q)
  BY <1>3, <1>6
<1>8. /\ D \subseteq C /\ p \in D /\ s \in D /\ mem_heap_lo \in D
  BY <1>1, <1>2 DEF Shape
<1>9. Shape(g, D, s)
  <2>1. ASSUME NEW d \in D
        PROVE  /\ chunksize(g, d) >= 8
               /\ d + chunksize(g, d) <= g.brk
               /\ IF d = s THEN d + chunksize(g, d) = g.brk ELSE d + chunksize(g, d) \in D
    <3>1. CASE d = p
      <4>1. chunksize(g, p) >= 8 /\ p + chunksize(g, p) <= g.brk
        BY <1>3, <1>5, <1>6, <1>7
      <4>2. CASE q = t
        <5>1. s = p /\ q + chunksize(h, q) = h.brk
          BY <1>1, <4>2 DEF Shape
        <5> QED
          BY <1>5, <1>7, <3>1, <4>1, <5>1
      <4>3. CASE q # t
        <5>1. q + chunksize(h, q) \in C /\ s # p
          BY <1>1, <1>2, <4>3 DEF Shape
        <5>2. q + chunksize(h, q) # q
          BY <1>3
        <5> QED
          BY <1>7, <3>1, <4>1, <5>1, <5>2
      <4> QED
        BY <4>2, <4>3
    <3>2. CASE d # p
      <4>1. d \in C /\ chunksize(g, d) = chunksize(h, d) /\ (d = s <=> d = t)
        BY <1>5, <1>8, <3>2
      <4>2. /\ chunksize(h, d) >= 8
            /\ d + chunksize(h, d) <= h.brk
            /\ IF d = t THEN d + chunksize(h, d) = h.brk ELSE d + chunksize(h, d) \in C
        BY <1>1, <4>1 DEF Shape
      <4>3. d + chunksize(h, d) # q
        BY <1>2, <3>2, <4>1
      <4> QED
        BY <1>5, <4>1, <4>2, <4>3
    <3> QED
      BY <3>1, <3>2
  <2>2. ASSUME NEW a \in D, NEW b \in D, a < b
        PROVE  a + chunksize(g, a) <= b
    <3>1. a \in C /\ b \in C /\ b # q /\ b \in Nat /\ a + chunksize(h, a) <= b
      BY <1>1, <1>8, <2>2, Chunk
    <3>2. CASE a = p
      <4>1. q < b
        BY <1>3, <3>1, <3>2
      <4>2. q + chunksize(h, q) <= b
        BY <1>1, <1>2, <3>1, <4>1, Chunk
      <4> QED
        BY <1>7, <3>2, <4>2
    <3>3. CASE a # p
      BY <1>5, <3>1, <3>3
    <3> QED
      BY <3>2, <3>3
  <2>3. ASSUME NEW d \in D, d # mem_heap_lo
        PROVE  \E r \in D : r + chunksize(g, r) = d
    <3>1. PICK r \in C : r + chunksize(h, r) = d
      BY <1>1, <1>8, <2>3 DEF Shape
    <3>2. r # p
      BY <3>1
    <3>3. CASE r = q
      BY <1>7, <1>8, <3>1, <3>3
    <3>4. CASE r # q
      BY <1>5, <3>1, <3>2, <3>4
    <3> QED
      BY <3>3, <3>4
  <2>4. prev_inuse(g, mem_heap_lo)
    <3>1. prev_inuse(h, mem_heap_lo) /\ mem_heap_lo \in C
      BY <1>1 DEF Shape
    <3> QED
      BY <1>4, <1>5, <3>1
  <2>5. g.brk % 8 = 0 /\ g.brk <= HeapEnd /\ D \subseteq Cells
    BY <1>1, <1>5, <1>8 DEF Shape
  <2> QED
    BY <1>5, <1>8, <2>1, <2>2, <2>3, <2>4, <2>5 DEF Shape
<1>10. FreeListed(g, D, s, L, {p})
  <2>1. Listed(L) = {d \in C : d # t /\ ~ is_valid(h, d)} \ {p, q}
    BY <1>1 DEF FreeListed
  <2>2. Listed(L) = {d \in D : d # s /\ ~ is_valid(g, d)} \ {p}
    BY <1>5, <1>8, <2>1
  <2>3. \A d \in Listed(L) : d \in C \ {p} /\ chunksize(h, d) >= 16
    BY <1>1, <2>1 DEF FreeListed
  <2> QED
    BY <1>5, <2>2, <2>3 DEF FreeListed
<1>11. Tagged(g, D, s, {p})
  <2>1. ASSUME NEW d \in D, d # s, d # p
        PROVE  Tag(g, d)
    <3>1. d \in C /\ d # q /\ d # t
      BY <1>8, <2>1
    <3>2. Tag(h, d)
      BY <2>1, <3>1, TaggedIs
    <3>3. d + chunksize(h, d) \in C
      BY <1>1, <3>1 DEF Shape
    <3>4. /\ prev_size(g, d + chunksize(h, d)) = prev_size(h, d + chunksize(h, d))
          /\ prev_inuse(g, d + chunksize(h, d)) <=> prev_inuse(h, d + chunksize(h, d))
      BY <1>4, <1>5, <3>3
    <3> QED
      BY <1>5, <2>1, <3>1, <3>2, <3>4 DEF Tag
  <2> QED
    BY <2>1, TaggedIs
<1>12. Keeps(g, D, h, C, {p, q})
  BY <1>5, <1>8 DEF Keeps
<1>13. Part(g, D, s, L, {p})
  BY <1>5, <1>9, <1>10 DEF Part
<1> QED
  BY <1>4, <1>5, <1>6, <1>8, <1>11, <1>12, <1>13 DEF Merged

\* The words that split_chunk writes
SplitAt(g, h, p, n, r, x, next) ==
  /\ SameBounds(g, h)
  /\ \A a \in Cells : a # p /\ a # r /\ (x => a # next) => size(g, a) = size(h, a)
  /\ \A y \in Slots : y # r /\ (x => y # next) => prev_size(g, y) = prev_size(h, y)
  /\ chunksize(g, p) = n
  /\ is_valid(g, p) <=> is_valid(h, p)
  /\ prev_inuse(g, p) <=> prev_inuse(h, p)
  /\ chunksize(g, r) = chunksize(h, p) - n /\ ~ is_valid(g, r) /\ ~ prev_inuse(g, r) /\ prev_size(g, r) = n
  /\ x => /\ chunksize(g, next) = chunksize(h, next)
          /\ is_valid(g, next) <=> is_valid(h, next)
          /\ ~ prev_inuse(g, next)
          /\ prev_size(g, next) = chunksize(h, p) - n

\* split_chunk cuts a chunk that is large enough in two (mm.c:309).
LEMMA SplitWrites ==
  ASSUME NEW h, NEW C, NEW t, Shape(h, C, t), NEW p \in C, NEW n \in Int, n % 8 = 0, n >= 8,
         chunksize(h, p) > n + 16, NEW r, r = p + n, NEW next, next = p + chunksize(h, p)
  PROVE  /\ split_chunk(h, p, n).rest = r
         /\ SplitAt(split_chunk(h, p, n).h, h, p, n, r, p # t, next)
<1> DEFINE cut == set_size(h, p, n + flags(h, p))
           told == set_prev_size(cut, r, n)
           made == set_size(told, r, chunksize(h, p) - n)
           g == split_chunk(h, p, n).h
<1>1. /\ h \in Heaps /\ p \in Cells /\ p \in Nat /\ p % 8 = 0 /\ 40 <= p
      /\ chunksize(h, p) \in Int /\ chunksize(h, p) % 8 = 0
      /\ next <= h.brk /\ h.brk \in Int /\ h.brk <= HeapEnd
      /\ HeapEnd \in Nat
      /\ p = t => next = h.brk
      /\ p # t => next \in C
  <2>1. /\ p \in Cells /\ p \in Nat /\ p % 8 = 0 /\ 40 <= p
        /\ chunksize(h, p) \in Int /\ chunksize(h, p) % 8 = 0
        /\ p + chunksize(h, p) <= h.brk /\ h.brk \in Int /\ h.brk <= HeapEnd
    BY Chunk
  <2>2. h \in Heaps /\ (p = t => next = h.brk) /\ (p # t => next \in C)
    BY DEF Shape
  <2> QED
    BY <2>1, <2>2, Constants
<1>2. r \in Cells /\ r \in Slots /\ r # p /\ p < r /\ r < next
  <2>1. r \in Int /\ r % 8 = 0 /\ 40 <= r /\ r < HeapEnd /\ r # p /\ p < r /\ r < next
    BY <1>1
  <2> QED
    BY <2>1, CellNumbers DEF Slots
<1>3. /\ chunksize(h, p) - n \in Int /\ (chunksize(h, p) - n) % 8 = 0
      /\ r + (chunksize(h, p) - n) = next
      /\ ~ (chunksize(h, p) <= n + 16)
  BY <1>1
<1>4. split_chunk(h, p, n) = [h |-> update_prev_info(made, r), rest |-> r]
  BY <1>3 DEF split_chunk
<1>5. /\ Header(cut, h, p, n)
      /\ is_valid(cut, p) <=> is_valid(h, p)
      /\ prev_inuse(cut, p) <=> prev_inuse(h, p)
  BY <1>1, SizeCut
<1> HIDE DEF cut
<1>6. cut \in Heaps
  BY <1>5 DEF Header, SameBounds
<1>7. /\ SameBounds(told, cut)
      /\ \A y \in Slots : prev_size(told, y) = IF y = r THEN n ELSE prev_size(cut, y)
      /\ \A a \in Cells : size(told, a) = size(cut, a)
  BY <1>2, <1>6, WriteFirst
<1> HIDE DEF told
<1>8. told \in Heaps
  BY <1>7 DEF SameBounds
<1>9. /\ Header(made, told, r, chunksize(h, p) - n) /\ ~ is_valid(made, r) /\ ~ prev_inuse(made, r)
  BY <1>2, <1>3, <1>8, SizeMade
<1> HIDE DEF made
<1>10. /\ SameBounds(made, h)
       /\ \A a \in Cells : a # p /\ a # r => size(made, a) = size(h, a)
       /\ \A y \in Slots : y # r => prev_size(made, y) = prev_size(h, y)
       /\ chunksize(made, p) = n
       /\ is_valid(made, p) <=> is_valid(h, p)
       /\ prev_inuse(made, p) <=> prev_inuse(h, p)
       /\ chunksize(made, r) = chunksize(h, p) - n /\ ~ is_valid(made, r) /\ ~ prev_inuse(made, r)
       /\ prev_size(made, r) = n
  <2>1. size(made, p) = size(told, p) /\ size(told, p) = size(cut, p)
    BY <1>1, <1>2, <1>7, <1>9 DEF Header
  <2>2. /\ chunksize(made, p) = chunksize(cut, p)
        /\ is_valid(made, p) <=> is_valid(cut, p)
        /\ prev_inuse(made, p) <=> prev_inuse(cut, p)
    BY <2>1, SameHeader
  <2>3. SameBounds(made, h)
    BY <1>5, <1>7, <1>9 DEF Header, SameBounds
  <2>4. \A a \in Cells : a # p /\ a # r => size(made, a) = size(h, a)
    BY <1>5, <1>7, <1>9 DEF Header
  <2>5. \A y \in Slots : prev_size(made, y) = IF y = r THEN n ELSE prev_size(h, y)
    BY <1>5, <1>7, <1>9 DEF Header
  <2> QED
    BY <1>2, <1>5, <1>9, <2>2, <2>3, <2>4, <2>5 DEF Header
<1>11. next_chunk(made, r) = next /\ made.brk = h.brk
  BY <1>3, <1>10 DEF next_chunk, SameBounds
<1>12. g = IF next < h.brk - 1 THEN clear_prev_inuse(set_prev_size(made, next, chunksize(made, r)), next) ELSE made
  BY <1>4, <1>11 DEF update_prev_info
<1> HIDE DEF g
<1>13. CASE p = t
  <2>1. g = made
    BY <1>1, <1>12, <1>13
  <2> QED
    BY <1>4, <1>10, <1>13, <2>1 DEF SplitAt, g
<1>14. CASE p # t
  <2>1. /\ next \in C /\ next \in Cells /\ next \in Slots /\ next # p /\ next # r
        /\ next < h.brk - 1
    <3>1. next \in C
      BY <1>1, <1>14
    <3>2. /\ next + chunksize(h, next) <= h.brk /\ chunksize(h, next) >= 8 /\ next \in Nat
          /\ chunksize(h, next) \in Int /\ next \in Cells
      BY <3>1, Chunk
    <3> QED
      BY <1>1, <1>2, <3>1, <3>2 DEF Slots
  <2> DEFINE f == set_prev_size(made, next, chunksize(made, r))
  <2>2. g = clear_prev_inuse(f, next)
    BY <1>12, <2>1
  <2>3. made \in Heaps /\ chunksize(made, r) \in Int
    BY <1>3, <1>10 DEF SameBounds
  <2>4. /\ SameBounds(f, made)
        /\ \A y \in Slots : prev_size(f, y) = IF y = next THEN chunksize(made, r) ELSE prev_size(made, y)
        /\ \A a \in Cells : size(f, a) = size(made, a)
    BY <2>1, <2>3, WriteFirst
  <2> HIDE DEF f
  <2>5. f \in Heaps
    BY <2>4 DEF SameBounds
  <2>6. /\ Header(g, f, next, chunksize(f, next))
        /\ is_valid(g, next) <=> is_valid(f, next)
        /\ ~ prev_inuse(g, next)
    BY <2>1, <2>2, <2>5, ClearPrevInuse
  <2>7. SameBounds(g, h)
    BY <1>10, <2>4, <2>6 DEF Header, SameBounds
  <2>8. \A a \in Cells : a # next => size(g, a) = size(made, a)
    BY <2>4, <2>6 DEF Header
  <2>9. \A y \in Slots : prev_size(g, y) = IF y = next THEN chunksize(h, p) - n ELSE prev_size(made, y)
    BY <1>10, <2>4, <2>6 DEF Header
  <2>10. /\ chunksize(g, p) = n
         /\ is_valid(g, p) <=> is_valid(h, p)
         /\ prev_inuse(g, p) <=> prev_inuse(h, p)
    <3>1. size(g, p) = size(made, p)
      BY <1>1, <2>1, <2>8
    <3> QED
      BY <1>10, <3>1, SameHeader
  <2>11. chunksize(g, r) = chunksize(h, p) - n /\ ~ is_valid(g, r) /\ ~ prev_inuse(g, r) /\ prev_size(g, r) = n
    <3>1. size(g, r) = size(made, r) /\ prev_size(g, r) = prev_size(made, r)
      BY <1>2, <2>1, <2>8, <2>9
    <3> QED
      BY <1>10, <3>1, SameHeader
  <2>12. /\ chunksize(g, next) = chunksize(h, next)
         /\ is_valid(g, next) <=> is_valid(h, next)
         /\ prev_size(g, next) = chunksize(h, p) - n
    <3>1. size(f, next) = size(h, next)
      BY <1>10, <2>1, <2>4
    <3>2. /\ chunksize(f, next) = chunksize(h, next)
          /\ is_valid(f, next) <=> is_valid(h, next)
      BY <3>1, SameHeader
    <3> QED
      BY <2>1, <2>6, <2>9, <3>2 DEF Header
  <2>13. \A a \in Cells : a # p /\ a # r /\ a # next => size(g, a) = size(h, a)
    BY <1>10, <2>8
  <2>14. \A y \in Slots : y # r /\ y # next => prev_size(g, y) = prev_size(h, y)
    BY <1>10, <2>9
  <2>15. split_chunk(h, p, n).rest = r
    BY <1>4
  <2>16. SplitAt(g, h, p, n, r, p # t, next)
    BY <1>14, <2>6, <2>7, <2>10, <2>11, <2>12, <2>13, <2>14 DEF SplitAt
  <2> QED
    BY <2>15, <2>16 DEF g
<1> QED
  BY <1>13, <1>14

\* The chunk p was cut after n bytes
Split(g, h, C, t, L, p, n, D, s) ==
  /\ Part(g, D, s, L, {p, p + n}) /\ p \in D /\ p + n \in D /\ p + n # p /\ p + n \notin C
  /\ \A X : Tagged(h, C, t, X) => /\ Tagged(g, D, s, X \cup {p})
                                  /\ ~ is_valid(h, p) => Tagged(g, D, s, X \ {p})
  /\ g.top = h.top /\ g.brk = h.brk
  /\ Keeps(g, D, h, C, {p})
  /\ prev_size(g, p) = prev_size(h, p)
  /\ chunksize(g, p) = n
  /\ is_valid(g, p) <=> is_valid(h, p)
  /\ chunksize(g, p + n) = chunksize(h, p) - n
  /\ ~ is_valid(g, p + n) /\ ~ prev_inuse(g, p + n) /\ prev_size(g, p + n) = n
  /\ \A d \in C \ {p} : /\ chunksize(g, d) = chunksize(h, d)
                        /\ is_valid(g, d) <=> is_valid(h, d)

\* A chunk in no list becomes two: heap, tags and lists stay sound.
LEMMA SplitShape ==
  ASSUME NEW h, NEW C, NEW t, NEW L, NEW p \in C, Part(h, C, t, L, {p}),
         NEW n \in Int, n % 8 = 0, n >= 8, chunksize(h, p) > n + 16,
         NEW r, r = p + n, NEW next, next = p + chunksize(h, p),
         NEW g, SplitAt(g, h, p, n, r, p # t, next),
         NEW D, D = C \cup {r}, NEW s, s = IF p = t THEN r ELSE t
  PROVE  Split(g, h, C, t, L, p, n, D, s)
<1>1. /\ Shape(h, C, t) /\ Lists(h, L) /\ FreeListed(h, C, t, L, {p}) /\ h \in Heaps /\ t \in C
      /\ p \notin Listed(L)
  BY ListedChunks DEF Part, Shape
<1>2. /\ p \in Cells /\ p \in Nat /\ p % 8 = 0 /\ 40 <= p
      /\ chunksize(h, p) \in Int /\ chunksize(h, p) % 8 = 0
      /\ next <= h.brk /\ h.brk \in Int /\ h.brk <= HeapEnd
      /\ HeapEnd \in Nat
  BY <1>1, Chunk, Constants
<1>3. r \in Cells /\ r \in Slots /\ r # p /\ p < r /\ r < next /\ r \in Nat
  <2>1. r \in Int /\ r % 8 = 0 /\ 40 <= r /\ r < HeapEnd /\ r # p /\ p < r /\ r < next
    BY <1>2
  <2> QED
    BY <2>1, CellNumbers DEF Slots
<1>4. /\ r \notin C
      /\ \A q \in C : q # p => ~ (q <= r /\ r <= q + chunksize(h, q))
  BY <1>1, <1>3, Inside
<1>5. /\ p # t => next \in C /\ next # p /\ next # mem_heap_lo /\ \A q \in C : q # p => q + chunksize(h, q) # next
      /\ p = t => next = h.brk
  <2>1. next = next_chunk(h, p)
    BY DEF next_chunk
  <2> QED
    BY <1>1, <2>1, NextChunk DEF Shape
<1>6. \A d \in C : d \in Cells /\ d \in Slots /\ d # r
  BY <1>1, <1>4, Chunk DEF Slots
<1>7. /\ g \in Heaps /\ g.top = h.top /\ g.brk = h.brk
      /\ chunksize(g, p) = n
      /\ is_valid(g, p) <=> is_valid(h, p)
      /\ prev_inuse(g, p) <=> prev_inuse(h, p)
      /\ prev_size(g, p) = prev_size(h, p)
      /\ chunksize(g, r) = chunksize(h, p) - n /\ ~ is_valid(g, r) /\ ~ prev_inuse(g, r) /\ prev_size(g, r) = n
  <2>1. prev_size(g, p) = prev_size(h, p)
    BY <1>3, <1>5, <1>6 DEF SplitAt
  <2> QED
    BY <2>1 DEF SplitAt, SameBounds
<1>8. \A d \in C \ {p} : /\ chunksize(g, d) = chunksize(h, d)
                         /\ is_valid(g, d) <=> is_valid(h, d)
                         /\ d # next => /\ prev_inuse(g, d) <=> prev_inuse(h, d)
                                        /\ prev_size(g, d) = prev_size(h, d)
  <2>1. ASSUME NEW d \in C \ {p}, d # next
        PROVE  size(g, d) = size(h, d) /\ prev_size(g, d) = prev_size(h, d)
    BY <1>6, <2>1 DEF SplitAt
  <2>2. ASSUME NEW d \in C \ {p}, d = next, p # t
        PROVE  /\ chunksize(g, d) = chunksize(h, d)
               /\ is_valid(g, d) <=> is_valid(h, d)
    BY <2>2 DEF SplitAt
  <2>3. p = t => next \notin C
    <3>1. \A d \in C : d + chunksize(h, d) <= h.brk /\ chunksize(h, d) >= 8 /\ d \in Nat /\ chunksize(h, d) \in Int
      BY <1>1, Chunk
    <3> QED
      BY <1>2, <1>5, <3>1
  <2> QED
    BY <2>1, <2>2, <2>3, SameHeader
<1>9. r + chunksize(g, r) = next
  BY <1>2, <1>7
<1>10. C \subseteq D /\ r \in D /\ s \in D /\ p \in D /\ D \subseteq Cells
  BY <1>1, <1>3, <1>6
<1>11. Shape(g, D, s)
  <2>1. ASSUME NEW d \in D
        PROVE  /\ chunksize(g, d) >= 8
               /\ d + chunksize(g, d) <= g.brk
               /\ IF d = s THEN d + chunksize(g, d) = g.brk ELSE d + chunksize(g, d) \in D
    <3>1. CASE d = p
      <4>1. p + chunksize(g, p) = r /\ p # s
        BY <1>3, <1>7
      <4> QED
        BY <1>2, <1>3, <1>7, <1>10, <3>1, <4>1
    <3>2. CASE d = r
      <4>1. chunksize(g, r) >= 8 /\ r + chunksize(g, r) <= g.brk
        BY <1>2, <1>7, <1>9
      <4>2. p # t => r # s /\ next \in D
        BY <1>4, <1>5, <1>1, <1>10
      <4> QED
        BY <1>5, <1>7, <1>9, <3>2, <4>1, <4>2
    <3>3. CASE d # p /\ d # r
      <4>1. d \in C /\ chunksize(g, d) = chunksize(h, d) /\ (d = s <=> d = t)
        BY <1>8, <3>3
      <4>2. /\ chunksize(h, d) >= 8
            /\ d + chunksize(h, d) <= h.brk
            /\ IF d = t THEN d + chunksize(h, d) = h.brk ELSE d + chunksize(h, d) \in C
        BY <1>1, <4>1 DEF Shape
      <4> QED
        BY <1>7, <1>10, <4>1, <4>2
    <3> QED
      BY <3>1, <3>2, <3>3
  <2>2. ASSUME NEW a \in D, NEW b \in D, a < b
        PROVE  a + chunksize(g, a) <= b
    <3>1. CASE a \in C /\ b \in C
      <4>1. a + chunksize(h, a) <= b /\ a \in Nat /\ b \in Nat /\ chunksize(h, a) \in Int
        BY <1>1, <2>2, <3>1, Chunk
      <4>2. CASE a = p
        BY <1>2, <1>7, <4>1, <4>2
      <4>3. CASE a # p
        BY <1>8, <3>1, <4>1, <4>3
      <4> QED
        BY <4>2, <4>3
    <3>2. CASE a = r /\ b \in C
      <4>1. p < b
        BY <1>1, <1>2, <1>3, <2>2, <3>2, Chunk
      <4>2. next <= b
        BY <1>1, <3>2, <4>1, Chunk
      <4> QED
        BY <1>9, <3>2, <4>2
    <3>3. CASE a \in C /\ b = r
      <4>1. CASE a = p
        BY <1>2, <1>7, <3>3, <4>1
      <4>2. CASE a # p
        <5>1. ~ (a <= r /\ r <= a + chunksize(h, a)) /\ chunksize(g, a) = chunksize(h, a)
          BY <1>4, <1>8, <3>3, <4>2
        <5>2. a \in Nat /\ chunksize(h, a) \in Int
          BY <1>1, <3>3, Chunk
        <5> QED
          BY <1>3, <2>2, <3>3, <5>1, <5>2
      <4> QED
        BY <4>1, <4>2
    <3>4. ~ (a = r /\ b = r)
      BY <1>3, <2>2
    <3> QED
      BY <3>1, <3>2, <3>3, <3>4
  <2>3. ASSUME NEW d \in D, d # mem_heap_lo
        PROVE  \E q \in D : q + chunksize(g, q) = d
    <3>1. CASE d = r
      BY <1>2, <1>7, <1>10, <3>1
    <3>2. CASE d # r
      <4>1. PICK q \in C : q + chunksize(h, q) = d
        BY <1>1, <2>3, <3>2 DEF Shape
      <4>2. CASE q = p
        BY <1>9, <1>10, <4>1, <4>2
      <4>3. CASE q # p
        BY <1>8, <1>10, <4>1, <4>3
      <4> QED
        BY <4>2, <4>3
    <3> QED
      BY <3>1, <3>2
  <2>4. prev_inuse(g, mem_heap_lo) /\ mem_heap_lo \in D
    <3>1. prev_inuse(h, mem_heap_lo) /\ mem_heap_lo \in C
      BY <1>1 DEF Shape
    <3>2. mem_heap_lo # next
      BY <1>2, <1>3, Constants
    <3> QED
      BY <1>7, <1>8, <1>10, <3>1, <3>2
  <2>5. g.brk % 8 = 0 /\ g.brk <= HeapEnd
    BY <1>1, <1>7 DEF Shape
  <2> QED
    BY <1>7, <1>10, <2>1, <2>2, <2>3, <2>4, <2>5 DEF Shape
<1>12. Lists(g, L)
  <2>1. \A b \in Bins : prev_size(g, b) = prev_size(h, b)
    <3>1. \A b \in Bins : b \in Slots /\ b < 40 /\ b \in Nat
      BY DEF Slots, Bins, UNSORTED, SMALL, MIDDLE, LARGE, HUGE
    <3>2. next > r /\ r >= 40 /\ next \in Int
      BY <1>2, <1>3
    <3>3. \A b \in Bins : b # r /\ b # next
      BY <1>3, <3>1, <3>2
    <3> QED
      BY <3>1, <3>3 DEF SplitAt
  <2>2. ASSUME NEW c \in Listed(L)
        PROVE  /\ size(g, c + 8) = size(h, c + 8)
               /\ prev_size(g, c + 8) = prev_size(h, c + 8)
               /\ chunksize(g, c) = chunksize(h, c)
    <3>1. c \in C /\ c # p /\ chunksize(h, c) >= 16
      BY <1>1, ListedChunks
    <3>2. c + 8 \in Cells /\ c + 8 # p /\ (p # t => c + 8 # next)
      BY <1>1, <1>5, ListedLinks, LinksApart
    <3>3. c + 8 \in Slots
      BY <3>2 DEF Slots
    <3>4. c + 8 # r
      <4>1. ~ (c <= r /\ r <= c + chunksize(h, c)) /\ c \in Nat /\ chunksize(h, c) \in Int
        BY <1>1, <1>4, <3>1, Chunk
      <4> QED
        BY <3>1, <4>1
    <3> QED
      BY <1>8, <3>1, <3>2, <3>3, <3>4 DEF SplitAt
  <2> QED
    BY <1>1, <2>1, <2>2, ListsFrame
<1>13. FreeListed(g, D, s, L, {p, r})
  <2>1. Listed(L) = {d \in C : d # t /\ ~ is_valid(h, d)} \ {p}
    BY <1>1 DEF FreeListed
  <2>2. Listed(L) = {d \in D : d # s /\ ~ is_valid(g, d)} \ {p, r}
    BY <1>6, <1>8, <2>1
  <2>3. \A d \in Listed(L) : d \in C \ {p} /\ chunksize(h, d) >= 16
    BY <1>1, <2>1 DEF FreeListed
  <2> QED
    BY <1>8, <2>2, <2>3 DEF FreeListed
<1>14. ASSUME NEW d \in D, d # s, d # p, d # r => d # t /\ Tag(h, d)
       PROVE  Tag(g, d)
  <2>1. CASE d = r
    <3>1. p # t
      BY <1>14, <2>1
    <3> QED
      BY <1>7, <1>9, <2>1, <3>1 DEF Tag, SplitAt
  <2>2. CASE d # r
    <3>1. d \in C /\ d # t /\ Tag(h, d)
      BY <1>14, <2>2
    <3>2. d + chunksize(h, d) \in C /\ d + chunksize(h, d) # next
      <4>1. d + chunksize(h, d) \in C
        BY <1>1, <3>1 DEF Shape
      <4>2. p = t => next \notin C
        <5>1. \A c \in C : c + chunksize(h, c) <= h.brk /\ chunksize(h, c) >= 8 /\ c \in Nat /\ chunksize(h, c) \in Int
          BY <1>1, Chunk
        <5> QED
          BY <1>2, <1>5, <5>1
      <4> QED
        BY <1>5, <1>14, <3>1, <4>1, <4>2
    <3>3. /\ prev_size(g, d + chunksize(h, d)) = prev_size(h, d + chunksize(h, d))
          /\ prev_inuse(g, d + chunksize(h, d)) <=> prev_inuse(h, d + chunksize(h, d))
      BY <1>7, <1>8, <3>2
    <3> QED
      BY <1>8, <1>14, <3>1, <3>3 DEF Tag
  <2> QED
    BY <2>1, <2>2
<1>15. ~ is_valid(h, p) => Tag(g, p)
  BY <1>7 DEF Tag
<1>16. ASSUME NEW X, Tagged(h, C, t, X)
       PROVE  /\ Tagged(g, D, s, X \cup {p})
              /\ ~ is_valid(h, p) => Tagged(g, D, s, X \ {p})
  <2>1. ASSUME NEW d \in D, d # s, d # p, d \notin X
        PROVE  Tag(g, d)
    <3>1. d # r => d # t /\ d \in C
      BY <1>1, <2>1
    <3>2. d # r => Tag(h, d)
      BY <1>16, <2>1, <3>1, TaggedIs
    <3> QED
      BY <1>14, <2>1, <3>1, <3>2
  <2> QED
    BY <1>15, <2>1, TaggedIs
<1>17. ASSUME NEW q \in C, q # p
       PROVE  Kept(g, h, q)
  <2>1. ASSUME NEW a \in Cells, q < a, a <= q + chunksize(h, q)
        PROVE  a # r
    <3>1. q \in Nat /\ a \in Nat
      BY <1>1, Chunk, CellNumbers
    <3>2. ~ (q <= r /\ r <= q + chunksize(h, q))
      BY <1>4, <1>17
    <3> QED
      BY <2>1, <3>1, <3>2
  <2>2. ASSUME NEW a \in Cells, q < a, a < q + chunksize(h, q)
        PROVE  size(g, a) = size(h, a)
    <3>1. a \notin C /\ a <= q + chunksize(h, q)
      BY <1>1, <2>2, Inside, Chunk, CellNumbers
    <3>2. a # p /\ (p # t => a # next) /\ a # r
      BY <1>5, <2>1, <2>2, <3>1
    <3> QED
      BY <3>2 DEF SplitAt
  <2>3. ASSUME NEW a \in Cells, q < a, a <= q + chunksize(h, q)
        PROVE  prev_size(g, a) = prev_size(h, a)
    <3>1. a \in Slots /\ a \in Nat /\ q \in Nat /\ chunksize(h, q) \in Int
      BY <1>1, Chunk, CellNumbers DEF Slots
    <3>2. p # t => a # next
      <4>1. a < q + chunksize(h, q) => a \notin C
        BY <1>1, <2>3, Inside
      <4>2. p # t => next \in C /\ q + chunksize(h, q) # next
        BY <1>5, <1>17
      <4> QED
        BY <2>3, <3>1, <4>1, <4>2
    <3>3. a # r
      BY <2>1, <2>3
    <3> QED
      BY <3>1, <3>2, <3>3 DEF SplitAt
  <2> QED
    BY <2>2, <2>3 DEF Kept
<1>18. Keeps(g, D, h, C, {p})
  <2>1. \A q \in C \ {p} : q \in D
    BY <1>10
  <2>2. \A q \in D \ {p} : is_valid(g, q) => q \in C /\ is_valid(h, q)
    BY <1>7, <1>8
  <2> QED
    BY <1>8, <1>17, <2>1, <2>2 DEF Keeps
<1>20. Part(g, D, s, L, {p, r})
  BY <1>11, <1>12, <1>13 DEF Part
<1>21. \A d \in C \ {p} : /\ chunksize(g, d) = chunksize(h, d)
                          /\ is_valid(g, d) <=> is_valid(h, d)
  BY <1>8
<1> QED
  BY <1>3, <1>4, <1>7, <1>10, <1>16, <1>18, <1>20, <1>21 DEF Split

\* Inserted, with the lists left open
LEMMA InsertedPart ==
  ASSUME NEW g, NEW h, NEW C, NEW t, NEW L, NEW limbo, NEW p, NEW b, Inserted(g, h, C, t, L, limbo, p, b)
  PROVE  /\ \E M : Part(g, C, t, M, limbo \ {p})
         /\ \A X : Tagged(h, C, t, X) => Tagged(g, C, t, X)
         /\ g.top = h.top /\ g.brk = h.brk
         /\ \A E : Keeps(g, C, h, C, E)
         /\ \A c \in C : /\ chunksize(g, c) = chunksize(h, c) /\ prev_size(g, c) = prev_size(h, c)
                         /\ is_valid(g, c) <=> is_valid(h, c)
BY DEF Inserted, LinksOnly

\* The chunk p has n bytes now, or up to 16 more
Trimmed(g, h, C, t, p, n, D) ==
  /\ \E M : Part(g, D, t, M, {p})
  /\ p \in D
  /\ Tagged(g, D, t, {p}) /\ (is_valid(h, p) => Tagged(g, D, t, {}))
  /\ g.top = h.top /\ g.brk = h.brk
  /\ Keeps(g, D, h, C, {p})
  /\ n <= chunksize(g, p) /\ chunksize(g, p) <= n + 16
  /\ is_valid(g, p) <=> is_valid(h, p)
  /\ is_valid(g, t) <=> is_valid(h, t)
  /\ chunksize(h, p) <= n + 16 => g = h

\* The remainder of a chunk goes to a bin (mm.c:366).
LEMMA Trims ==
  ASSUME NEW h, NEW C, NEW t, NEW L, NEW p \in C, p # t, Part(h, C, t, L, {p}), Tagged(h, C, t, {}),
         NEW n \in Int, n % 8 = 0, n >= 8, chunksize(h, p) >= n,
         NEW g, g = split_and_append(h, p, n)
  PROVE  \E D : Trimmed(g, h, C, t, p, n, D)
<1>1. Shape(h, C, t) /\ chunksize(h, p) \in Int /\ p \in Nat /\ t \in C
  BY Chunk DEF Part, Shape
<1>2. CASE chunksize(h, p) <= n + 16
  <2>1. g = h
    BY <1>2 DEF split_and_append, append_remainder, split_chunk
  <2>2. Tagged(h, C, t, {p})
    BY DEF Tagged
  <2>3. Keeps(h, C, h, C, {p})
    BY KeepsItself
  <2>4. Trimmed(g, h, C, t, p, n, C)
    BY <1>2, <2>1, <2>2, <2>3 DEF Trimmed
  <2> QED
    BY <2>4
<1>3. CASE chunksize(h, p) > n + 16
  <2> DEFINE cut == split_chunk(h, p, n)
             e == cut.h
             r == p + n
             next == p + chunksize(h, p)
             f == set_prev_inuse(e, r)
             b == calculate_bin(chunksize(e, p))
             D == C \cup {r}
  <2>1. cut.rest = r /\ SplitAt(e, h, p, n, r, p # t, next)
    BY <1>1, <1>3, SplitWrites
  <2>2. Split(e, h, C, t, L, p, n, D, t)
    <3> HIDE DEF e
    <3> QED
      BY <1>1, <1>3, <2>1, SplitShape
  <2>3. g = append_chunk(f, b, r)
    <3>1. r # NULL
      BY <1>1 DEF NULL
    <3> QED
      BY <2>1, <3>1 DEF split_and_append, append_remainder
  <2>4. b \in Bins
    BY DEF calculate_bin, Bins
  <2> HIDE DEF e, b
  <2>5. /\ Part(e, D, t, L, {p, r}) /\ p \in D /\ r \in D /\ r # p /\ Tagged(e, D, t, {p})
        /\ Keeps(e, D, h, C, {p}) /\ e.top = h.top /\ e.brk = h.brk
        /\ chunksize(e, p) = n /\ chunksize(e, r) = chunksize(h, p) - n /\ ~ is_valid(e, r)
        /\ is_valid(e, p) <=> is_valid(h, p)
        /\ is_valid(e, t) <=> is_valid(h, t)
    <3>1. Tagged(e, D, t, {} \cup {p}) /\ {} \cup {p} = {p}
      BY <2>2 DEF Split
    <3> QED
      BY <1>1, <2>2, <3>1 DEF Split
  <2>6. /\ e \in Heaps /\ r \in Cells /\ Shape(e, D, t) /\ r = p + chunksize(e, p)
    <3>1. Shape(e, D, t)
      BY <2>5 DEF Part
    <3> QED
      BY <2>5, <3>1, Chunk DEF Shape
  <2>7. /\ Header(f, e, r, chunksize(e, r)) /\ prev_inuse(f, r)
        /\ is_valid(f, r) <=> is_valid(e, r)
    BY <2>6, SetPrevInuse
  <2> HIDE DEF f
  <2>8. Told(f, e, D, t, p)
    <3>1. AtCell(f, e, r)
      BY <2>7, HeaderAtCell
    <3> QED
      BY <2>5, <2>6, <2>7, <3>1, Tells
  <2>9. /\ Part(f, D, t, L, {p, r}) /\ Tagged(f, D, t, {p})
        /\ Keeps(f, D, e, D, {p}) /\ f.top = e.top /\ f.brk = e.brk
        /\ chunksize(f, p) = n /\ chunksize(f, r) = chunksize(h, p) - n /\ ~ is_valid(f, r)
        /\ is_valid(f, p) <=> is_valid(h, p)
        /\ is_valid(f, t) <=> is_valid(h, t)
    <3>1. Tagged(f, D, t, {p} \cup {p}) /\ {p} \cup {p} = {p}
      BY <2>5, <2>8 DEF Told
    <3>2. t \in D
      BY <1>1
    <3> QED
      BY <2>5, <2>8, <3>1, <3>2 DEF Told
  <2>10. is_valid(h, p) => Tagged(f, D, t, {})
    <3>1. is_valid(h, p) => Tag(f, p)
      BY <2>5, <2>6, <2>7, <2>9 DEF Tag
    <3>2. Tag(f, p) => Tagged(f, D, t, {p} \ {p})
      BY <2>5, <2>8 DEF Told
    <3>3. {p} \ {p} = {}
      OBVIOUS
    <3> QED
      BY <3>1, <3>2, <3>3
  <2>11. r \in {p, r} /\ r # t /\ chunksize(f, r) >= 16
    <3>1. r \notin C
      BY <2>2 DEF Split
    <3> QED
      BY <1>1, <1>3, <2>9, <3>1
  <2> HIDE DEF D, r
  <2>12. Inserted(g, f, D, t, L, {p, r}, r, b)
    BY <2>3, <2>4, <2>5, <2>9, <2>11, Appends
  <2>13. /\ \E M : Part(g, D, t, M, {p, r} \ {r})
         /\ Tagged(g, D, t, {p})
         /\ is_valid(h, p) => Tagged(g, D, t, {})
         /\ g.top = f.top /\ g.brk = f.brk
         /\ Keeps(g, D, f, D, {p})
         /\ \A c \in D : /\ chunksize(g, c) = chunksize(f, c)
                         /\ is_valid(g, c) <=> is_valid(f, c)
    BY <2>9, <2>10, <2>12, InsertedPart
  <2>14. {p, r} \ {r} = {p}
    BY <2>5
  <2>15. Keeps(g, D, h, C, {p})
    <3>1. Keeps(g, D, e, D, {p})
      BY <2>9, <2>13, KeepsAgain
    <3> QED
      BY <2>5, <3>1, KeepsAgain
  <2>16. t \in D
    BY <1>1 DEF D
  <2>17. n <= chunksize(g, p) /\ chunksize(g, p) <= n + 16
    BY <2>5, <2>9, <2>13
  <2>18. /\ is_valid(g, p) <=> is_valid(h, p)
         /\ is_valid(g, t) <=> is_valid(h, t)
         /\ g.top = h.top /\ g.brk = h.brk
    BY <2>5, <2>9, <2>13, <2>16
  <2>19. ~ (chunksize(h, p) <= n + 16)
    BY <1>1, <1>3
  <2>20. Trimmed(g, h, C, t, p, n, D)
    BY <2>5, <2>13, <2>14, <2>15, <2>17, <2>18, <2>19 DEF Trimmed
  <2> QED
    BY <2>20
<1> QED
  BY <1>1, <1>2, <1>3

\* The top is in no list.
LEMMA LimboTop ==
  ASSUME NEW h, NEW C, NEW t, NEW L, NEW limbo, Part(h, C, t, L, limbo)
  PROVE  Part(h, C, t, L, limbo \ {t})
BY DEF Part, FreeListed

\* g has the memory of h; its top may be another one
SameMemory(g, h) == g \in Heaps /\ g.m = h.m /\ g.brk = h.brk

\* What is read of a chunk depends on the memory alone.
LEMMA SameMemoryReads ==
  ASSUME NEW g, NEW h, g.m = h.m
  PROVE  \A a : /\ size(g, a) = size(h, a) /\ prev_size(g, a) = prev_size(h, a)
                /\ chunksize(g, a) = chunksize(h, a)
                /\ is_valid(g, a) <=> is_valid(h, a)
                /\ prev_inuse(g, a) <=> prev_inuse(h, a)
<1>1. \A a : size(g, a) = size(h, a) /\ prev_size(g, a) = prev_size(h, a)
  BY DEF size, prev_size
<1> QED
  BY <1>1, SameHeader

\* A new top changes neither memory nor what is said of it.
LEMMA TopChange ==
  ASSUME NEW g, NEW h, SameMemory(g, h)
  PROVE  /\ \A C, t, L, limbo : Part(h, C, t, L, limbo) => Part(g, C, t, L, limbo)
         /\ \A C, t, X : Tagged(h, C, t, X) => Tagged(g, C, t, X)
         /\ \A f, B, C, E : Keeps(h, C, f, B, E) => Keeps(g, C, f, B, E)
         /\ \A a : /\ chunksize(g, a) = chunksize(h, a)
                   /\ is_valid(g, a) <=> is_valid(h, a)
<1>1. \A a : /\ size(g, a) = size(h, a) /\ prev_size(g, a) = prev_size(h, a)
             /\ chunksize(g, a) = chunksize(h, a)
             /\ is_valid(g, a) <=> is_valid(h, a)
             /\ prev_inuse(g, a) <=> prev_inuse(h, a)
  BY SameMemoryReads DEF SameMemory
<1>2. ASSUME NEW C, NEW t, NEW L, NEW limbo, Part(h, C, t, L, limbo)
      PROVE  Part(g, C, t, L, limbo)
  <2>1. Shape(g, C, t)
    BY <1>1, <1>2 DEF Part, Shape, SameMemory
  <2>2. Lists(g, L)
    BY <1>1, <1>2, ListsFrame DEF Part
  <2>3. FreeListed(g, C, t, L, limbo)
    BY <1>1, <1>2 DEF Part, FreeListed
  <2> QED
    BY <2>1, <2>2, <2>3 DEF Part
<1>3. ASSUME NEW C, NEW t, NEW X, Tagged(h, C, t, X)
      PROVE  Tagged(g, C, t, X)
  BY <1>1, <1>3 DEF Tagged
<1>4. ASSUME NEW f, NEW B, NEW C, NEW E, Keeps(h, C, f, B, E)
      PROVE  Keeps(g, C, f, B, E)
  BY <1>1, <1>4 DEF Keeps, Kept
<1> QED
  BY <1>1, <1>2, <1>3, <1>4

-----------------------------------------------------------------------------
(* The end of the heap. *)

\* Arithmetic of multiples, one product at a time.
LEMMA Multiples ==
  /\ \A x \in Int, n \in Nat \ {0} : /\ x \div n \in Int /\ (x \div n) * n <= x /\ x < (x \div n) * n + n
                                     /\ (x * n) % n = 0 /\ x * n \in Int
  /\ \A x, k \in Int : x * (8 * k) = 8 * (x * k) /\ x * k \in Int
  /\ \A k \in Int : (8 * k) % 8 = 0
  /\ \A i, j, n \in Int : i * n + j * n = (i + j) * n
<1>1. \A x \in Int, n \in Nat \ {0} : x \div n \in Int
  OBVIOUS
<1>2. \A x \in Int, n \in Nat \ {0} : (x \div n) * n <= x
  OBVIOUS
<1>3. \A x \in Int, n \in Nat \ {0} : x < (x \div n) * n + n
  OBVIOUS
<1>4. \A x \in Int, n \in Nat \ {0} : (x * n) % n = 0
  OBVIOUS
<1>5. \A x, k \in Int : x * (8 * k) = 8 * (x * k)
  OBVIOUS
<1>6. \A x, k \in Int : x * k \in Int
  OBVIOUS
<1>7. \A k \in Int : (8 * k) % 8 = 0
  OBVIOUS
<1>8. \A i, j, n \in Int : i * n + j * n = (i + j) * n
  OBVIOUS
<1>9. \A n \in Nat \ {0} : n \in Int
  OBVIOUS
<1> QED
  BY <1>1, <1>2, <1>3, <1>4, <1>5, <1>6, <1>7, <1>8, <1>9

\* The heap has grown by a number of steps
Steps(x) == \E k \in Int : x - mem_heap_lo = k * TOP_ALIGNMENT

\* ALIGN rounds up to a step of the heap's end (mm.c:45).
LEMMA AlignFacts ==
  ASSUME NEW x \in Int, NEW y, y = Align(x, TOP_ALIGNMENT)
  PROVE  /\ y \in Int /\ y % 8 = 0 /\ y >= x
         /\ \E k \in Int : y = k * TOP_ALIGNMENT
<1>1. /\ TOP_ALIGNMENT \in Nat \ {0} /\ TOP_ALIGNMENT \in Int /\ TOP_ALIGNMENT \div 8 \in Int
      /\ TOP_ALIGNMENT = 8 * (TOP_ALIGNMENT \div 8)
  <2>1. TOP_ALIGNMENT \in Nat /\ TOP_ALIGNMENT > 0 /\ TOP_ALIGNMENT % 8 = 0
    BY Constants
  <2>2. TOP_ALIGNMENT \in Int
    BY <2>1
  <2> QED
    BY <2>1, <2>2, Eighths
<1> DEFINE z == x + TOP_ALIGNMENT - 1
           k == z \div TOP_ALIGNMENT
           j == TOP_ALIGNMENT \div 8
<1>2. z \in Int
  BY <1>1
<1> HIDE DEF z, j
<1>3. k \in Int /\ k * TOP_ALIGNMENT <= z /\ z < k * TOP_ALIGNMENT + TOP_ALIGNMENT /\ k * TOP_ALIGNMENT \in Int
  BY <1>1, <1>2, Multiples
<1>4. y = k * TOP_ALIGNMENT
  BY DEF Align, z
<1> HIDE DEF k
<1>5. y >= x
  BY <1>1, <1>3, <1>4 DEF z
<1>6. y % 8 = 0
  <2>1. j \in Int /\ TOP_ALIGNMENT = 8 * j
    BY <1>1 DEF j
  <2>2. y = 8 * (k * j) /\ k * j \in Int
    BY <1>3, <1>4, <2>1, Multiples
  <2> QED
    BY <2>2, Multiples
<1> QED
  BY <1>3, <1>4, <1>5, <1>6

\* The top chunk is large enough for one of n bytes
TopGrown(g, h, C, t, n) ==
  /\ \A L, limbo : Part(h, C, t, L, limbo) => Part(g, C, t, L, limbo)
  /\ \A X : Tagged(h, C, t, X) => Tagged(g, C, t, X)
  /\ Keeps(g, C, h, C, {})
  /\ g.top = h.top /\ g.brk >= h.brk /\ (Steps(h.brk) => Steps(g.brk))
  /\ chunksize(g, t) >= n + 32 /\ ~ is_valid(g, t)

\* extend_top_chunk asks mem_sbrk for enough (mm.c:168).
LEMMA Grows ==
  ASSUME NEW h, NEW C, NEW t, NEW L, NEW limbo, Part(h, C, t, L, limbo), h.top = t, ~ is_valid(h, t),
         NEW n \in Int, HasTop(h, n) \/ CanExtend(h, n), NEW g, g = Grown(h, n)
  PROVE  TopGrown(g, h, C, t, n)
<1>1. /\ Shape(h, C, t) /\ h \in Heaps /\ h.brk \in Int /\ t \in C /\ t \in Cells
      /\ chunksize(h, t) \in Int /\ t + chunksize(h, t) = h.brk
      /\ chunksize(h, t) >= 8 /\ t \in Nat /\ HeapEnd \in Nat
  <2>1. Shape(h, C, t) /\ h \in Heaps /\ t \in C /\ t + chunksize(h, t) = h.brk
    BY DEF Part, Shape
  <2>2. h.brk \in Int /\ t \in Cells /\ chunksize(h, t) \in Int /\ chunksize(h, t) >= 8 /\ t \in Nat
    BY <2>1, Chunk
  <2>3. HeapEnd \in Nat
    BY Constants
  <2> QED
    BY <2>1, <2>2, <2>3
<1>2. CASE HasTop(h, n)
  <2>1. g = h /\ chunksize(h, t) >= n + 32
    BY <1>2 DEF Grown, HasTop
  <2>2. Keeps(h, C, h, C, {})
    BY KeepsItself
  <2> QED
    BY <1>1, <2>1, <2>2 DEF TopGrown
<1>3. CASE ~ HasTop(h, n)
  <2> DEFINE R == RequiredFor(h, n)
             e == set_size(h, h.top, size(h, h.top) + R)
  <2>1. g = [e EXCEPT !.brk = @ + R] /\ h.brk + R <= HeapEnd
    BY <1>3 DEF Grown, extend_top_chunk, CanExtend, HeapEnd
  <2>2. R \in Int /\ R % 8 = 0 /\ R >= n + 32 - chunksize(h, t) /\ \E k \in Int : R = k * TOP_ALIGNMENT
    <3>1. n + 32 - chunksize(h, t) \in Int /\ R = Align(n + 32 - chunksize(h, t), TOP_ALIGNMENT)
      BY <1>1 DEF RequiredFor
    <3> HIDE DEF R
    <3> QED
      BY <3>1, AlignFacts
  <2> HIDE DEF R
  <2>3. R > 0
    <3>1. n + 32 - chunksize(h, t) > 0
      BY <1>1, <1>3 DEF HasTop
    <3> QED
      BY <1>1, <2>2, <3>1
  <2>4. /\ Header(e, h, t, chunksize(h, t) + R)
        /\ is_valid(e, t) <=> is_valid(h, t)
        /\ prev_inuse(e, t) <=> prev_inuse(h, t)
    BY <1>1, <2>2, SizeGrown
  <2> HIDE DEF e
  <2>5. /\ \A q \in C : Kept(e, h, q)
        /\ \A d \in C \ {t} : /\ prev_size(e, d) = prev_size(h, d)
                              /\ chunksize(e, d) = chunksize(h, d)
                              /\ is_valid(e, d) <=> is_valid(h, d)
                              /\ prev_inuse(e, d) <=> prev_inuse(h, d)
        /\ e \in Heaps /\ e.top = h.top /\ e.brk = h.brk /\ prev_size(e, t) = prev_size(h, t)
    <3>1. t \notin Listed(L)
      BY ListedChunks DEF Part
    <3> QED
      BY <1>1, <2>4, <3>1, SizeLists
  <2>6. chunksize(e, t) = chunksize(h, t) + R
    BY <2>4 DEF Header
  <2>7. g.m = e.m /\ g.top = h.top /\ g.brk = h.brk + R /\ g \in Heaps
    <3>1. g.m = e.m /\ g.top = e.top /\ g.brk = e.brk + R
      BY <2>1, <2>5 DEF Heaps
    <3>2. e.brk + R \in Int
      BY <1>1, <2>2, <2>5
    <3>3. g \in Heaps
      BY <2>1, <2>5, <3>2 DEF Heaps
    <3> QED
      BY <2>5, <3>1, <3>3
  <2>8. \A a : /\ size(g, a) = size(e, a) /\ prev_size(g, a) = prev_size(e, a)
               /\ chunksize(g, a) = chunksize(e, a)
               /\ is_valid(g, a) <=> is_valid(e, a)
               /\ prev_inuse(g, a) <=> prev_inuse(e, a)
    BY <2>7, SameMemoryReads
  <2>9. \A d \in C : /\ d # t => chunksize(g, d) = chunksize(h, d)
                     /\ prev_size(g, d) = prev_size(h, d)
                     /\ is_valid(g, d) <=> is_valid(h, d)
                     /\ prev_inuse(g, d) <=> prev_inuse(h, d)
    BY <2>4, <2>5, <2>8
  <2>10. chunksize(g, t) = chunksize(h, t) + R
    BY <2>6, <2>8
  <2>11. Shape(g, C, t)
    <3>1. ASSUME NEW d \in C
          PROVE  /\ chunksize(g, d) >= 8
                 /\ d + chunksize(g, d) <= g.brk
                 /\ IF d = t THEN d + chunksize(g, d) = g.brk ELSE d + chunksize(g, d) \in C
      <4>1. /\ chunksize(h, d) >= 8 /\ d + chunksize(h, d) <= h.brk /\ d \in Nat /\ chunksize(h, d) \in Int
            /\ d # t => d + chunksize(h, d) \in C
        BY <1>1, Chunk
      <4>2. CASE d = t
        BY <1>1, <2>2, <2>3, <2>7, <2>10, <4>2
      <4>3. CASE d # t
        BY <1>1, <2>2, <2>3, <2>7, <2>9, <4>1, <4>3
      <4> QED
        BY <4>2, <4>3
    <3>2. ASSUME NEW a \in C, NEW b \in C, a < b
          PROVE  a + chunksize(g, a) <= b /\ a # t
      <4>1. b \in Nat /\ (b # t => b < t)
        BY <1>1, Chunk
      <4>2. a # t
        BY <1>1, <3>2, <4>1
      <4> QED
        BY <1>1, <2>9, <3>2, <4>2 DEF Shape
    <3>3. ASSUME NEW d \in C, d # mem_heap_lo
          PROVE  \E q \in C : q + chunksize(g, q) = d
      <4>1. PICK q \in C : q + chunksize(h, q) = d
        BY <1>1, <3>3 DEF Shape
      <4>2. q # t
        <5>1. d \in Nat /\ chunksize(h, d) >= 8 /\ chunksize(h, d) \in Int /\ d + chunksize(h, d) <= h.brk
          BY <1>1, Chunk
        <5> QED
          BY <1>1, <4>1, <5>1
      <4> QED
        BY <2>9, <4>1, <4>2
    <3>4. prev_inuse(g, mem_heap_lo)
      BY <1>1, <2>9 DEF Shape
    <3>5. g.brk % 8 = 0 /\ g.brk <= HeapEnd
      <4>1. h.brk % 8 = 0
        BY <1>1 DEF Shape
      <4>2. (h.brk + R) % 8 = 0
        BY <1>1, <2>2, <4>1
      <4> QED
        BY <2>1, <2>7, <4>2
    <3> QED
      BY <1>1, <2>7, <3>1, <3>2, <3>3, <3>4, <3>5 DEF Shape
  <2>12. ASSUME NEW M, NEW limb, Part(h, C, t, M, limb)
         PROVE  Part(g, C, t, M, limb)
    <3>1. t \notin Listed(M)
      BY <2>12, ListedChunks DEF Part
    <3>2. Lists(e, M)
      BY <1>1, <2>4, <2>12, <3>1, SizeLists
    <3>3. Lists(g, M)
      BY <2>8, <3>2, ListsFrame
    <3>4. FreeListed(g, C, t, M, limb)
      BY <2>9, <2>12 DEF Part, FreeListed
    <3> QED
      BY <2>11, <3>3, <3>4 DEF Part
  <2>13. ASSUME NEW X, Tagged(h, C, t, X)
         PROVE  Tagged(g, C, t, X)
    <3>1. \A d \in C : d # t => d + chunksize(h, d) \in C
      BY <1>1 DEF Shape
    <3> QED
      BY <2>9, <2>13, <3>1 DEF Tagged
  <2>14. Keeps(g, C, h, C, {})
    <3>1. \A q \in C : Kept(g, h, q)
      BY <2>5, <2>8 DEF Kept
    <3> QED
      BY <2>9, <3>1 DEF Keeps
  <2>15. Steps(h.brk) => Steps(g.brk)
    <3>1. SUFFICES ASSUME Steps(h.brk) PROVE Steps(g.brk)
      OBVIOUS
    <3>2. PICK i \in Int : h.brk - mem_heap_lo = i * TOP_ALIGNMENT
      BY <3>1 DEF Steps
    <3>3. PICK j \in Int : R = j * TOP_ALIGNMENT
      BY <2>2
    <3>4. i * TOP_ALIGNMENT + j * TOP_ALIGNMENT = (i + j) * TOP_ALIGNMENT /\ i + j \in Int
      BY <3>2, <3>3, Constants, Multiples
    <3>5. g.brk - mem_heap_lo = (h.brk - mem_heap_lo) + R
      BY <1>1, <2>2, <2>7, Constants
    <3> QED
      BY <3>2, <3>3, <3>4, <3>5 DEF Steps
  <2>16. /\ chunksize(g, t) >= n + 32 /\ ~ is_valid(g, t) /\ g.top = h.top /\ g.brk >= h.brk
    BY <1>1, <2>2, <2>3, <2>7, <2>9, <2>10
  <2> QED
    BY <2>12, <2>13, <2>14, <2>15, <2>16 DEF TopGrown
<1> QED
  BY <1>2, <1>3

\* The top was cut after n bytes, the rest r is the top now
TopSplit(g, h, C, t, L, n, D, r) ==
  /\ Part(g, D, r, L, {t}) /\ t \in D /\ t # r /\ Tagged(g, D, r, {})
  /\ g.top = h.top /\ g.brk = h.brk
  /\ Keeps(g, D, h, C, {})
  /\ chunksize(g, t) = n /\ ~ is_valid(g, t)
  /\ chunksize(g, r) = chunksize(h, t) - n /\ ~ is_valid(g, r) /\ ~ prev_inuse(g, r)

\* A top chunk with room for a remainder is split into two.
LEMMA SplitsTop ==
  ASSUME NEW h, NEW C, NEW t, NEW L, Part(h, C, t, L, {}), Tagged(h, C, t, {}), ~ is_valid(h, t),
         NEW n \in Int, n % 8 = 0, n >= 8, chunksize(h, t) > n + 16,
         NEW r, r = t + n, NEW g, g = split_chunk(h, t, n).h,
         NEW D, D = C \cup {r}
  PROVE  split_chunk(h, t, n).rest = r /\ TopSplit(g, h, C, t, L, n, D, r)
<1>1. Shape(h, C, t) /\ t \in C /\ t \notin Listed(L)
  BY ListedChunks DEF Part, Shape
<1>2. Part(h, C, t, L, {t})
  <2>1. Part(h, C, t, L, {} \cup {t}) /\ {} \cup {t} = {t}
    BY <1>1, LimboMore
  <2> QED
    BY <2>1
<1>3. PICK next : next = t + chunksize(h, t)
  OBVIOUS
<1>4. split_chunk(h, t, n).rest = r /\ SplitAt(g, h, t, n, r, t # t, next)
  BY <1>1, <1>3, SplitWrites
<1>5. Split(g, h, C, t, L, t, n, D, r)
  BY <1>1, <1>2, <1>3, <1>4, SplitShape
<1>6. r # t /\ Part(g, D, r, L, {t, r}) /\ t \in D
  BY <1>5 DEF Split
<1>7. Part(g, D, r, L, {t})
  <2>1. Part(g, D, r, L, {t, r} \ {r}) /\ {t, r} \ {r} = {t}
    BY <1>6, LimboTop
  <2> QED
    BY <2>1
<1>8. Tagged(g, D, r, {})
  <2>1. Tagged(g, D, r, {} \ {t}) /\ {} \ {t} = {}
    BY <1>5 DEF Split
  <2> QED
    BY <2>1
<1>9. Keeps(g, D, h, C, {})
  <2>1. Keeps(g, D, h, C, {t}) /\ ~ is_valid(g, t) /\ {t} \ {t} = {}
    BY <1>5 DEF Split
  <2>2. Keeps(g, D, h, C, {t} \ {t})
    BY <2>1, KeepsLess
  <2> QED
    BY <2>1, <2>2
<1>10. /\ g.top = h.top /\ g.brk = h.brk
       /\ chunksize(g, t) = n /\ ~ is_valid(g, t)
       /\ chunksize(g, r) = chunksize(h, t) - n /\ ~ is_valid(g, r) /\ ~ prev_inuse(g, r)
  BY <1>5 DEF Split
<1> QED
  BY <1>4, <1>6, <1>7, <1>8, <1>9, <1>10 DEF TopSplit

\* A free chunk p of n bytes was cut off the top
CutOff(g, h, C, p, n, D, s) ==
  /\ \E M : Part(g, D, s, M, {p})
  /\ Tagged(g, D, s, {}) /\ p \in D /\ p # s
  /\ g.top = s /\ ~ is_valid(g, s) /\ ~ is_valid(g, p) /\ chunksize(g, p) = n
  /\ Keeps(g, D, h, C, {})
  /\ g.brk >= h.brk /\ (Steps(h.brk) => Steps(g.brk))

\* The rest becomes the top (mm.c:336).
LEMMA CutsTop ==
  ASSUME NEW e, NEW h, NEW C, NEW t, NEW L, NEW n, NEW D, NEW r, TopSplit(e, h, C, t, L, n, D, r),
         NEW f, NEW B, Keeps(h, C, f, B, {}), h.brk >= f.brk, Steps(f.brk) => Steps(h.brk),
         r \in Int, NEW g, g = [e EXCEPT !.top = r]
  PROVE  CutOff(g, f, B, t, n, D, r)
<1>1. Part(e, D, r, L, {t}) /\ e \in Heaps
  BY DEF TopSplit, Part, Shape
<1>2. SameMemory(g, e) /\ g.top = r
  BY <1>1 DEF SameMemory, Heaps
<1>3. Part(g, D, r, L, {t}) /\ Tagged(g, D, r, {})
  BY <1>1, <1>2, TopChange DEF TopSplit
<1>4. Keeps(g, D, h, C, {})
  BY <1>2, TopChange DEF TopSplit
<1>5. Keeps(g, D, f, B, {})
  BY <1>4, KeepsAgain
<1>6. /\ chunksize(g, t) = n /\ ~ is_valid(g, t) /\ ~ is_valid(g, r)
      /\ t \in D /\ t # r /\ g.brk = h.brk
  BY <1>2, TopChange DEF TopSplit, SameMemory
<1> QED
  BY <1>2, <1>3, <1>5, <1>6 DEF CutOff

\* Without memory nothing changes, else p is cut off
CutFrom(r, h, C, n) ==
  \/ r.p = NULL /\ r.h = h
  \/ r.p # NULL /\ \E D, s : CutOff(r.h, h, C, r.p, n, D, s)

CutTop(r, h, C, t, n) == CutFrom(r, h, C, n) /\ (r.p # NULL => r.p = t)

\* split_top_chunk (mm.c:328).
LEMMA TopCut ==
  ASSUME NEW h, NEW C, NEW t, NEW L, Part(h, C, t, L, {}), Tagged(h, C, t, {}), ~ is_valid(h, t), h.top = t,
         NEW n \in Int, n % 8 = 0, n >= 8, NEW r, r = split_top_chunk(h, n)
  PROVE  CutTop(r, h, C, t, n)
<1>1. t \in C /\ t \in Nat /\ t # NULL
  <2>1. Shape(h, C, t) /\ t \in C
    BY DEF Part, Shape
  <2>2. t \in Nat /\ 40 <= t
    BY <2>1, Chunk
  <2> QED
    BY <2>1, <2>2 DEF NULL
<1>2. CASE ~ (HasTop(h, n) \/ CanExtend(h, n))
  BY <1>2 DEF split_top_chunk, CutFrom, CutTop
<1>3. CASE HasTop(h, n) \/ CanExtend(h, n)
  <2>1. PICK f : f = Grown(h, n)
    OBVIOUS
  <2>2. PICK c : c = t + n
    OBVIOUS
  <2>3. TopGrown(f, h, C, t, n)
    BY <1>3, <2>1, Grows
  <2>4. Part(f, C, t, L, {}) /\ Tagged(f, C, t, {}) /\ ~ is_valid(f, t) /\ chunksize(f, t) >= n + 32
    BY <2>3 DEF TopGrown
  <2>5. chunksize(f, t) \in Int /\ chunksize(f, t) > n + 16 /\ c \in Int
    <3>1. Shape(f, C, t)
      BY <2>4 DEF Part
    <3>2. chunksize(f, t) \in Int
      BY <1>1, <3>1, Chunk
    <3> QED
      BY <1>1, <2>2, <2>4, <3>2
  <2>6. PICK e : e = split_chunk(f, t, n).h
    OBVIOUS
  <2>7. PICK D : D = C \cup {c}
    OBVIOUS
  <2>8. split_chunk(f, t, n).rest = c /\ TopSplit(e, f, C, t, L, n, D, c)
    BY <2>2, <2>4, <2>5, <2>6, <2>7, SplitsTop, SMTT(30)
  <2>9. r.p = t /\ r.h = [e EXCEPT !.top = c]
    BY <1>3, <2>1, <2>6, <2>8 DEF split_top_chunk, Cut
  <2>10. PICK g : g = r.h
    OBVIOUS
  <2>11. CutOff(g, h, C, t, n, D, c)
    BY <2>3, <2>5, <2>8, <2>9, <2>10, CutsTop DEF TopGrown
  <2> QED
    BY <1>1, <2>9, <2>10, <2>11 DEF CutFrom, CutTop
<1> QED
  BY <1>2, <1>3

\* split_top_chunk_prepared (mm.c:342).
LEMMA TopCutPrepared ==
  ASSUME NEW h, NEW C, NEW t, NEW L, Part(h, C, t, L, {}), Tagged(h, C, t, {}), ~ is_valid(h, t), h.top = t,
         NEW n \in Int, n % 8 = 0, n >= 8, NEW r, r = split_top_chunk_prepared(h, n)
  PROVE  CutFrom(r, h, C, n)
<1>1. t \in C /\ t \in Nat /\ t # NULL /\ 40 <= t
  <2>1. Shape(h, C, t) /\ t \in C
    BY DEF Part, Shape
  <2>2. t \in Nat /\ 40 <= t
    BY <2>1, Chunk
  <2> QED
    BY <2>1, <2>2 DEF NULL
<1>2. PICK k : k = PREPARED_SIZE
  OBVIOUS
<1>3. k \in Int /\ k % 8 = 0 /\ k >= 16 /\ n + k \in Int
  BY <1>2, Constants
<1>4. CASE ~ (HasTop(h, n + k) \/ CanExtend(h, n + k))
  BY <1>2, <1>4 DEF split_top_chunk_prepared, CutFrom
<1>5. CASE HasTop(h, n + k) \/ CanExtend(h, n + k)
  <2>1. PICK f : f = Grown(h, n + k)
    OBVIOUS
  <2>2. PICK c : c = t + k
    OBVIOUS
  <2>3. TopGrown(f, h, C, t, n + k)
    BY <1>3, <1>5, <2>1, Grows
  <2>4. Part(f, C, t, L, {}) /\ Tagged(f, C, t, {}) /\ ~ is_valid(f, t) /\ chunksize(f, t) >= n + k + 32
    BY <2>3 DEF TopGrown
  <2>5. chunksize(f, t) \in Int /\ chunksize(f, t) > k + 16 /\ c \in Int /\ c # NULL /\ k >= 8
    <3>1. Shape(f, C, t)
      BY <2>4 DEF Part
    <3>2. chunksize(f, t) \in Int
      BY <1>1, <3>1, Chunk
    <3> QED
      BY <1>1, <1>3, <2>2, <2>4, <3>2 DEF NULL
  <2>6. PICK e : e = split_chunk(f, t, k).h
    OBVIOUS
  <2>7. PICK B : B = C \cup {c}
    OBVIOUS
  <2>8. split_chunk(f, t, k).rest = c /\ TopSplit(e, f, C, t, L, k, B, c)
    <3>1. ASSUME NEW i \in Int, i % 8 = 0, i >= 8, chunksize(f, t) > i + 16, c = t + i,
                 e = split_chunk(f, t, i).h
          PROVE  split_chunk(f, t, i).rest = c /\ TopSplit(e, f, C, t, L, i, B, c)
      <4>1. Part(f, C, t, L, {}) /\ Tagged(f, C, t, {}) /\ ~ is_valid(f, t)
        BY <2>4
      <4> QED
        BY <2>7, <3>1, <4>1, SplitsTop
    <3> QED
      BY <1>3, <2>2, <2>5, <2>6, <3>1
  <2>9. /\ Part(e, B, c, L, {t}) /\ t \in B /\ t # c /\ ~ is_valid(e, t) /\ chunksize(e, t) = k
        /\ ~ prev_inuse(e, c) /\ ~ is_valid(e, c) /\ chunksize(e, c) = chunksize(f, t) - k
        /\ Tagged(e, B, c, {}) /\ Keeps(e, B, f, C, {}) /\ e.brk = f.brk
    BY <2>8 DEF TopSplit
  <2>10. PICK p : p = append_chunk_unsorted(clear_prev_inuse(e, c), t)
    OBVIOUS
  <2>11. p = append_chunk_unsorted(e, t)
    BY <2>9, <2>10 DEF clear_prev_inuse
  <2>12. Inserted(p, e, B, c, L, {t}, t, UNSORTED)
    <3>1. t \in {t} /\ chunksize(e, t) >= 16
      BY <1>3, <2>9
    <3> QED
      BY <2>9, <2>11, <3>1, AppendsUnsorted
  <2>13. PICK M : Part(p, B, c, M, {})
    <3>1. PICK M : Part(p, B, c, M, {t} \ {t})
      BY <2>12, InsertedPart
    <3>2. {t} \ {t} = {}
      OBVIOUS
    <3> QED
      BY <3>1, <3>2
  <2>14. /\ Tagged(p, B, c, {}) /\ p.brk = e.brk /\ Keeps(p, B, e, B, {})
         /\ chunksize(p, c) = chunksize(e, c) /\ ~ is_valid(p, c)
    <3>1. c \in B
      BY <2>7
    <3> QED
      BY <2>9, <2>12, <3>1, InsertedPart
  <2>15. chunksize(p, c) > n + 16
    BY <1>3, <2>4, <2>5, <2>9, <2>14
  <2>16. PICK q : q = split_chunk(p, c, n).h
    OBVIOUS
  <2>17. PICK s : s = c + n
    OBVIOUS
  <2>18. PICK D : D = B \cup {s}
    OBVIOUS
  <2>19. split_chunk(p, c, n).rest = s /\ TopSplit(q, p, B, c, M, n, D, s)
    <3>1. Part(p, B, c, M, {}) /\ Tagged(p, B, c, {}) /\ ~ is_valid(p, c)
      BY <2>13, <2>14
    <3> QED
      BY <2>15, <2>16, <2>17, <2>18, <3>1, SplitsTop, SMTT(30)
  <2>20. r.p = c /\ r.h = [q EXCEPT !.top = s]
    BY <1>2, <1>5, <2>1, <2>2, <2>6, <2>8, <2>10, <2>16, <2>19 DEF split_top_chunk_prepared, Cut, Prepare
  <2>21. Keeps(p, B, h, C, {}) /\ p.brk >= h.brk /\ (Steps(h.brk) => Steps(p.brk))
    <3>1. Keeps(f, C, h, C, {}) /\ f.brk >= h.brk /\ (Steps(h.brk) => Steps(f.brk))
      BY <2>3 DEF TopGrown
    <3>2. Keeps(e, B, h, C, {})
      BY <2>9, <3>1, KeepsAgain
    <3>3. Keeps(p, B, h, C, {})
      BY <2>14, <3>2, KeepsAgain
    <3> QED
      BY <2>9, <2>14, <3>1, <3>3
  <2>22. PICK g : g = r.h
    OBVIOUS
  <2>23. s \in Int
    BY <2>5, <2>17
  <2>24. CutOff(g, h, C, c, n, D, s)
    BY <2>19, <2>20, <2>21, <2>22, <2>23, CutsTop
  <2> QED
    BY <2>5, <2>20, <2>22, <2>24 DEF CutFrom
<1> QED
  BY <1>4, <1>5

\* A sound heap has no chunk that is being worked on.
LEMMA SoundIs ==
  \A h, C, t, L : Sound(h, C, t, L) <=> /\ Part(h, C, t, L, {}) /\ Tagged(h, C, t, {})
                                        /\ h.top = t /\ ~ is_valid(h, t)
BY DEF Sound, Part

\* Tags may be excepted for more chunks.
LEMMA TaggedMore == \A h, C, t, X, Y : Tagged(h, C, t, X) /\ X \subseteq Y => Tagged(h, C, t, Y)
BY DEF Tagged

-----------------------------------------------------------------------------
(* malloc *)

\* g is the heap h with a chunk p more in use, of n bytes or up to 16 more
Taken(g, h, C, p, n, D, s) ==
  /\ \E M : Sound(g, D, s, M)
  /\ Keeps(g, D, h, C, {p})
  /\ p \in D /\ p # s /\ is_valid(g, p) /\ (p \in C => ~ is_valid(h, p))
  /\ n <= chunksize(g, p) /\ chunksize(g, p) <= n + 16
  /\ g.brk >= h.brk /\ (Steps(h.brk) => Steps(g.brk))

\* A chunk that is in no bin can be given to the user
LEMMA Delivers ==
  ASSUME NEW f, NEW h, NEW C, NEW D, NEW s, NEW M, NEW p \in D, p # s, NEW n \in Int,
         Part(f, D, s, M, {p}), Tagged(f, D, s, {p}), f.top = s, ~ is_valid(f, s),
         Keeps(f, D, h, C, {p}), n <= chunksize(f, p), chunksize(f, p) <= n + 16,
         f.brk >= h.brk, Steps(h.brk) => Steps(f.brk), p \in C => ~ is_valid(h, p),
         NEW g, g = InUse(f, p)
  PROVE  Taken(g, h, C, p, n, D, s)
<1>1. /\ Part(g, D, s, M, {}) /\ Tagged(g, D, s, {}) /\ Keeps(g, D, f, D, {p})
      /\ g.top = f.top /\ g.brk = f.brk
      /\ is_valid(g, p) /\ chunksize(g, p) = chunksize(f, p)
      /\ is_valid(g, s) <=> is_valid(f, s)
  <2>1. Marked(g, f, D, s, M, p, {})
    BY MarksInUse
  <2> QED
    BY <2>1 DEF Marked
<1>2. Sound(g, D, s, M)
  BY <1>1, SoundIs
<1>3. Keeps(g, D, h, C, {p})
  BY <1>1, KeepsAgain
<1> QED
  BY <1>1, <1>2, <1>3 DEF Taken

\* Without memory the user's chunks are what they were
Refused(g, h, C, t) ==
  /\ \E M : Sound(g, C, t, M)
  /\ Keeps(g, C, h, C, {}) /\ g.brk = h.brk

Got(r, h, C, t, n) ==
  \/ r.ptr = NULL /\ Refused(r.h, h, C, t)
  \/ r.ptr # NULL /\ \E p, D, s : r.ptr = p + 8 /\ Taken(r.h, h, C, p, n, D, s)

\* mm_malloc: a chunk of the right size, or the heap as it was.
LEMMA Allocates ==
  ASSUME NEW h, NEW C, NEW t, NEW L, Sound(h, C, t, L),
         NEW n \in Nat, NEW k \in Int, k = size2chunksize(n), k % 8 = 0, k >= 8,
         NEW r, r = mm_malloc(h, n)
  PROVE  Got(r, h, C, t, k)
<1>1. Part(h, C, t, L, {}) /\ Tagged(h, C, t, {}) /\ h.top = t /\ ~ is_valid(h, t)
  BY SoundIs
<1>2. PICK found : found = find_chunk(h, k)
  OBVIOUS
<1>3. PICK f : f = found.h
  OBVIOUS
<1>4. PICK p : p = found.p
  OBVIOUS
<1>5. PICK got : got = Take(found, k)
  OBVIOUS
<1>6. r = Allocated(got)
  BY <1>2, <1>5 DEF mm_malloc
<1>7. Found(f, p, h, C, t, k)
  BY <1>1, <1>2, <1>3, <1>4, Finds
<1>8. PICK M : Part(f, C, t, M, {}) /\ (p # NULL => p \in Listed(M) /\ chunksize(f, p) >= k)
  BY <1>7 DEF Found
<1>9. /\ Tagged(f, C, t, {}) /\ f.top = t /\ f.brk = h.brk /\ ~ is_valid(f, t)
      /\ \A E : Keeps(f, C, h, C, E)
      /\ \A c \in C : is_valid(f, c) <=> is_valid(h, c)
  <2>1. t \in C
    BY <1>1 DEF Part, Shape
  <2> QED
    BY <1>1, <1>7, <2>1 DEF Found, LinksOnly
<1>10. ASSUME NEW q, NEW D, q \in D, NEW g, NEW s, Shape(g, D, s)
       PROVE  q + 8 # NULL /\ chunksize(g, q) \in Int
  <2>1. q \in Nat /\ chunksize(g, q) \in Int
    BY <1>10, Chunk
  <2> QED
    BY <2>1 DEF NULL
<1>11. h.brk \in Int
  BY <1>1 DEF Part, Shape, Heaps
<1>12. CASE p = NULL
  <2>1. got = split_top_chunk_prepared(f, k)
    BY <1>3, <1>4, <1>5, <1>12 DEF Take
  <2>2. CutFrom(got, f, C, k)
    BY <1>8, <1>9, <2>1, TopCutPrepared
  <2>3. CASE got.p = NULL /\ got.h = f
    <3>1. r.ptr = NULL /\ r.h = f
      BY <1>6, <2>3 DEF Allocated
    <3>2. Sound(f, C, t, M)
      BY <1>8, <1>9, SoundIs
    <3> QED
      BY <1>9, <3>1, <3>2 DEF Got, Refused
  <2>4. CASE got.p # NULL /\ \E D, s : CutOff(got.h, f, C, got.p, k, D, s)
    <3>1. PICK q : q = got.p
      OBVIOUS
    <3>2. PICK e : e = got.h
      OBVIOUS
    <3>3. PICK D, s : CutOff(e, f, C, q, k, D, s)
      BY <2>4, <3>1, <3>2
    <3>4. /\ Tagged(e, D, s, {}) /\ q \in D /\ q # s
          /\ e.top = s /\ ~ is_valid(e, s) /\ ~ is_valid(e, q) /\ chunksize(e, q) = k
          /\ Keeps(e, D, f, C, {})
          /\ e.brk >= f.brk /\ (Steps(f.brk) => Steps(e.brk))
      BY <3>3 DEF CutOff
    <3>5. PICK N : Part(e, D, s, N, {q})
      BY <3>3 DEF CutOff
    <3>6. PICK g : g = InUse(e, q)
      OBVIOUS
    <3>7. r.h = g /\ r.ptr = q + 8 /\ r.ptr # NULL
      <4>1. r.h = g /\ r.ptr = q + 8
        BY <1>6, <2>4, <3>1, <3>2, <3>6 DEF Allocated, chunk2mem
      <4>2. Shape(e, D, s)
        BY <3>5 DEF Part
      <4> QED
        BY <1>10, <3>4, <4>1, <4>2
    <3>8. Keeps(e, D, h, C, {q}) /\ Tagged(e, D, s, {q})
      <4>1. Keeps(e, D, h, C, {})
        BY <1>9, <3>4, KeepsAgain
      <4>2. {} \subseteq {q}
        OBVIOUS
      <4> QED
        BY <3>4, <4>1, <4>2, KeepsMore, TaggedMore
    <3>9. q \in C => ~ is_valid(h, q)
      BY <1>9, <3>4 DEF Keeps
    <3>10. k <= chunksize(e, q) /\ chunksize(e, q) <= k + 16
      BY <3>4
    <3>11. e.brk >= h.brk /\ (Steps(h.brk) => Steps(e.brk))
      BY <1>9, <3>4
    <3>12. Taken(g, h, C, q, k, D, s)
      BY <3>4, <3>5, <3>6, <3>8, <3>9, <3>10, <3>11, Delivers
    <3> QED
      BY <3>7, <3>12 DEF Got
  <2> QED
    BY <2>2, <2>3, <2>4 DEF CutFrom
<1>13. CASE p # NULL
  <2>1. p \in Listed(M) /\ chunksize(f, p) >= k
    BY <1>8, <1>13
  <2>2. p \in C /\ p # t /\ ~ is_valid(f, p)
    BY <1>8, <2>1, ListedChunks DEF Part
  <2>3. PICK u : u = unlink_chunk(f, p)
    OBVIOUS
  <2>4. Unlinked(u, f, C, t, M, {}, p)
    BY <1>8, <2>1, <2>3, UnlinksListed
  <2>5. PICK N : Part(u, C, t, N, {p})
    <3>1. PICK N : Part(u, C, t, N, {} \cup {p})
      BY <2>4 DEF Unlinked
    <3>2. {} \cup {p} = {p}
      OBVIOUS
    <3> QED
      BY <3>1, <3>2
  <2>6. /\ Tagged(u, C, t, {}) /\ u.top = t /\ u.brk = h.brk /\ ~ is_valid(u, t)
        /\ \A E : Keeps(u, C, f, C, E)
        /\ chunksize(u, p) >= k /\ ~ is_valid(u, p)
    <3>1. t \in C
      BY <1>1 DEF Part, Shape
    <3> QED
      BY <1>9, <2>1, <2>2, <2>4, <3>1 DEF Unlinked, LinksOnly
  <2>7. PICK e : e = split_and_append(u, p, k)
    OBVIOUS
  <2>8. PICK D : Trimmed(e, u, C, t, p, k, D)
    BY <2>2, <2>5, <2>6, <2>7, Trims
  <2>9. /\ p \in D /\ Tagged(e, D, t, {p})
        /\ e.top = t /\ e.brk = h.brk
        /\ Keeps(e, D, u, C, {p})
        /\ k <= chunksize(e, p) /\ chunksize(e, p) <= k + 16
        /\ ~ is_valid(e, t)
    BY <2>6, <2>8 DEF Trimmed
  <2>10. PICK K : Part(e, D, t, K, {p})
    BY <2>8 DEF Trimmed
  <2>11. PICK g : g = InUse(e, p)
    OBVIOUS
  <2>12. r.h = g /\ r.ptr = p + 8 /\ r.ptr # NULL
    <3>1. got.h = e /\ got.p = p
      BY <1>3, <1>4, <1>5, <1>13, <2>3, <2>7 DEF Take
    <3>2. r.h = g /\ r.ptr = p + 8
      BY <1>6, <1>13, <2>11, <3>1 DEF Allocated, chunk2mem
    <3>3. Shape(e, D, t)
      BY <2>10 DEF Part
    <3> QED
      BY <1>10, <2>9, <3>2, <3>3
  <2>13. Keeps(e, D, h, C, {p})
    <3>1. Keeps(u, C, h, C, {p})
      BY <1>9, <2>6, KeepsAgain
    <3> QED
      BY <2>9, <3>1, KeepsAgain
  <2>14. e.brk >= h.brk /\ (Steps(h.brk) => Steps(e.brk))
    BY <1>11, <2>9
  <2>15. p \in C => ~ is_valid(h, p)
    BY <1>9, <2>2
  <2>16. Taken(g, h, C, p, k, D, t)
    BY <2>2, <2>9, <2>10, <2>11, <2>13, <2>14, <2>15, Delivers
  <2> QED
    BY <2>12, <2>16 DEF Got
<1> QED
  BY <1>12, <1>13

-----------------------------------------------------------------------------
(* free *)

\* A chunk that was free and is gone has no data to keep.
LEMMA KeepsGone ==
  ASSUME NEW g, NEW D, NEW h, NEW C, NEW E, NEW x, Keeps(g, D, h, C, E), ~ is_valid(h, x), x \notin D
  PROVE  Keeps(g, D, h, C, E \ {x})
BY DEF Keeps

\* The chunk p of h, as it is to be freed, is part of the chunk r now
Joined(g, h, C, t, p, r, D, s) ==
  /\ \E M : Part(g, D, s, M, {r})
  /\ Tagged(g, D, s, {r}) /\ r \in D /\ D \subseteq C
  /\ g.top = t /\ g.brk = h.brk
  /\ Keeps(g, D, h, C, {p})
  /\ chunksize(g, r) >= 16 /\ p # t
  /\ s = (IF p + chunksize(h, p) = t THEN r ELSE t)
  /\ s # r => ~ is_valid(g, s)
  /\ r # p => ~ is_valid(h, r) /\ ~ is_valid(g, r) /\ p \notin D

\* The chunk after p, if it is free, becomes part of it
LEMMA JoinsNext ==
  ASSUME NEW h, NEW C, NEW t, NEW L, Sound(h, C, t, L), NEW p \in C, is_valid(h, p), chunksize(h, p) >= 16,
         NEW g, g = MergeNext(h, p)
  PROVE  \E D, s : Joined(g, h, C, t, p, p, D, s)
<1>1. /\ Part(h, C, t, L, {}) /\ Tagged(h, C, t, {}) /\ h.top = t /\ ~ is_valid(h, t)
      /\ Shape(h, C, t) /\ FreeListed(h, C, t, L, {}) /\ t \in C /\ p # t
  BY SoundIs DEF Part, Shape
<1>2. PICK q : q = next_chunk(h, p)
  OBVIOUS
<1>3. q = p + chunksize(h, p) /\ q \in C /\ q # p
  BY <1>1, <1>2, NextChunk
<1>4. \A M, limbo, e : Part(e, C, t, M, limbo) /\ is_valid(e, p) => Part(e, C, t, M, limbo \cup {p})
  <2>1. ASSUME NEW M, NEW limbo, NEW e, Part(e, C, t, M, limbo), is_valid(e, p)
        PROVE  Part(e, C, t, M, limbo \cup {p})
    <3>1. p \notin Listed(M)
      BY <2>1, ListedChunks DEF Part
    <3> QED
      BY <2>1, <3>1, LimboMore
  <2> QED
    BY <2>1
<1>5. \A e, X : Tagged(e, C, t, {}) => Tagged(e, C, t, X)
  BY TaggedMore
<1>6. CASE is_valid(h, q)
  <2>1. g = h /\ q # t
    BY <1>1, <1>2, <1>6 DEF MergeNext
  <2>2. Part(h, C, t, L, {} \cup {p}) /\ {} \cup {p} = {p}
    BY <1>1, <1>4
  <2>3. Part(h, C, t, L, {p})
    BY <2>2
  <2>4. Joined(g, h, C, t, p, p, C, t)
    BY <1>1, <1>3, <1>5, <2>1, <2>3, KeepsItself DEF Joined
  <2> QED
    BY <2>4
<1>7. CASE ~ is_valid(h, q)
  <2>1. PICK u : u = IF q = t THEN h ELSE unlink_chunk(h, q)
    OBVIOUS
  <2>2. g = Extend(u, p, q)
    BY <1>1, <1>2, <1>7, <2>1 DEF MergeNext
  <2>3. /\ \E M : Part(u, C, t, M, {p, q})
        /\ Tagged(u, C, t, {}) /\ u.top = t /\ u.brk = h.brk /\ ~ is_valid(u, t)
        /\ Keeps(u, C, h, C, {p, q})
        /\ chunksize(u, p) = chunksize(h, p) /\ chunksize(u, q) = chunksize(h, q)
    <3>1. CASE q = t
      <4>1. u = h
        BY <2>1, <3>1
      <4>2. Part(h, C, t, L, {} \cup {p})
        BY <1>1, <1>4
      <4>3. t \notin Listed(L)
        BY <1>1, ListedChunks
      <4>4. Part(h, C, t, L, ({} \cup {p}) \cup {t})
        BY <4>2, <4>3, LimboMore
      <4>5. ({} \cup {p}) \cup {t} = {p, q}
        BY <3>1
      <4>6. Part(h, C, t, L, {p, q})
        BY <4>4, <4>5
      <4> QED
        BY <1>1, <4>1, <4>6, KeepsItself
    <3>2. CASE q # t
      <4>1. u = unlink_chunk(h, q) /\ q \in Listed(L)
        BY <1>1, <1>3, <1>7, <2>1, <3>2 DEF FreeListed
      <4>2. Unlinked(u, h, C, t, L, {}, q)
        BY <1>1, <4>1, UnlinksListed
      <4>3. /\ Tagged(u, C, t, {}) /\ u.top = t /\ u.brk = h.brk /\ ~ is_valid(u, t)
            /\ Keeps(u, C, h, C, {p, q}) /\ is_valid(u, p)
            /\ chunksize(u, p) = chunksize(h, p) /\ chunksize(u, q) = chunksize(h, q)
        BY <1>1, <1>3, <4>2 DEF Unlinked, LinksOnly
      <4>4. PICK M : Part(u, C, t, M, {} \cup {q})
        BY <4>2 DEF Unlinked
      <4>5. Part(u, C, t, M, ({} \cup {q}) \cup {p})
        BY <1>4, <4>3, <4>4
      <4>6. ({} \cup {q}) \cup {p} = {p, q}
        OBVIOUS
      <4>7. Part(u, C, t, M, {p, q})
        BY <4>5, <4>6
      <4> QED
        BY <4>3, <4>7
    <3> QED
      BY <3>1, <3>2
  <2>4. PICK M : Part(u, C, t, M, {p, q})
    BY <2>3
  <2>5. PICK D : D = C \ {q}
    OBVIOUS
  <2>6. PICK s : s = IF q = t THEN p ELSE t
    OBVIOUS
  <2>7. q = p + chunksize(u, p) /\ Tagged(u, C, t, {p, q})
    BY <1>3, <1>5, <2>3
  <2>8. Merged(g, u, C, t, M, p, q, D, s)
    BY <1>1, <2>2, <2>4, <2>5, <2>6, <2>7, Merges
  <2>9. Part(g, D, s, M, {p}) /\ Tagged(g, D, s, {p}) /\ p \in D /\ g.top = t /\ g.brk = h.brk
    BY <2>3, <2>8 DEF Merged
  <2>10. chunksize(g, p) >= 16
    <3>1. chunksize(g, p) = chunksize(h, p) + chunksize(h, q)
      BY <2>3, <2>8 DEF Merged
    <3>2. chunksize(h, p) \in Int /\ chunksize(h, q) \in Int /\ chunksize(h, q) >= 8
      BY <1>1, <1>3, Chunk
    <3> QED
      BY <3>1, <3>2
  <2>11. Keeps(g, D, h, C, {p})
    <3>1. Keeps(g, D, u, C, {p, q})
      BY <2>8 DEF Merged
    <3>2. Keeps(g, D, h, C, {p, q})
      BY <2>3, <3>1, KeepsAgain
    <3>3. q \notin D /\ {p, q} \ {q} = {p}
      BY <1>3, <2>5
    <3>4. Keeps(g, D, h, C, {p, q} \ {q})
      BY <1>7, <3>2, <3>3, KeepsGone
    <3> QED
      BY <3>3, <3>4
  <2>12. s # p => ~ is_valid(g, s)
    <3>1. SUFFICES ASSUME s # p PROVE ~ is_valid(g, s)
      OBVIOUS
    <3>2. s = t /\ t \in D \ {p}
      BY <1>1, <2>5, <2>6, <3>1
    <3>3. is_valid(g, t) <=> is_valid(u, t)
      BY <2>8, <3>2 DEF Merged
    <3> QED
      BY <2>3, <3>2, <3>3
  <2>13. D \subseteq C
    BY <2>5
  <2>14. s = (IF p + chunksize(h, p) = t THEN p ELSE t)
    BY <1>3, <2>6
  <2>15. Joined(g, h, C, t, p, p, D, s)
    BY <1>1, <2>9, <2>10, <2>11, <2>12, <2>13, <2>14 DEF Joined
  <2> QED
    BY <2>15
<1> QED
  BY <1>6, <1>7

\* Before a chunk that says so there is a free one, where prev_size says.
LEMMA FreeBefore ==
  ASSUME NEW h, NEW C, NEW t, Shape(h, C, t), NEW p \in C, Tagged(h, C, t, {p}), ~ prev_inuse(h, p),
         NEW q, q = p - prev_size(h, p)
  PROVE  q \in C /\ q # t /\ q # p /\ p = q + chunksize(h, q) /\ ~ is_valid(h, q)
<1>1. p # mem_heap_lo
  BY DEF Shape
<1>2. PICK c \in C : c + chunksize(h, c) = p
  BY <1>1 DEF Shape
<1>3. /\ c \in Nat /\ p \in Nat /\ chunksize(h, c) \in Int /\ chunksize(h, c) >= 8
      /\ p # t => p < t
  BY Chunk
<1>4. t \in Nat
  <2>1. t \in C
    BY DEF Shape
  <2> QED
    BY <2>1, Chunk
<1>5. c # t /\ c # p
  BY <1>2, <1>3, <1>4
<1>6. ~ is_valid(h, c) /\ prev_size(h, p) = chunksize(h, c)
  BY <1>2, <1>5 DEF Tagged
<1>7. q = c
  BY <1>2, <1>3, <1>6
<1> QED
  BY <1>2, <1>5, <1>6, <1>7

\* The chunk becomes part of the one before it, if that is free
LEMMA JoinsPrev ==
  ASSUME NEW a, NEW h, NEW C, NEW t, NEW p, NEW D, NEW s, Joined(a, h, C, t, p, p, D, s),
         NEW r, r = MergePrev(a, p)
  PROVE  \E B, w : Joined(r.h, h, C, t, p, r.p, B, w)
<1>1. /\ Tagged(a, D, s, {p}) /\ p \in D /\ D \subseteq C
      /\ a.top = t /\ a.brk = h.brk
      /\ Keeps(a, D, h, C, {p})
      /\ chunksize(a, p) >= 16 /\ p # t
      /\ s = (IF p + chunksize(h, p) = t THEN p ELSE t)
      /\ s # p => ~ is_valid(a, s)
  BY DEF Joined
<1>2. PICK M : Part(a, D, s, M, {p})
  BY DEF Joined
<1>3. Shape(a, D, s) /\ FreeListed(a, D, s, M, {p}) /\ s \in D
  BY <1>2 DEF Part, Shape
<1>4. PICK q : q = p - prev_size(a, p)
  OBVIOUS
<1>5. CASE prev_inuse(a, p)
  <2>1. r.h = a /\ r.p = p
    BY <1>5 DEF MergePrev
  <2> QED
    BY <2>1
<1>6. CASE ~ prev_inuse(a, p)
  <2>1. q \in D /\ q # s /\ q # p /\ p = q + chunksize(a, q) /\ ~ is_valid(a, q)
    BY <1>1, <1>3, <1>4, <1>6, FreeBefore
  <2>2. q \in Listed(M)
    BY <1>3, <2>1 DEF FreeListed
  <2>3. PICK u : u = unlink_chunk(a, q)
    OBVIOUS
  <2>4. PICK g : g = Extend(u, q, p)
    OBVIOUS
  <2>5. r.h = g /\ r.p = q
    BY <1>4, <1>6, <2>3, <2>4 DEF MergePrev
  <2>6. Unlinked(u, a, D, s, M, {p}, q)
    BY <1>2, <2>2, <2>3, UnlinksListed
  <2>7. PICK N : Part(u, D, s, N, {q, p})
    <3>1. PICK N : Part(u, D, s, N, {p} \cup {q})
      BY <2>6 DEF Unlinked
    <3>2. {p} \cup {q} = {q, p}
      OBVIOUS
    <3> QED
      BY <3>1, <3>2
  <2>8. /\ Tagged(u, D, s, {p}) /\ u.top = t /\ u.brk = h.brk
        /\ \A E : Keeps(u, D, a, D, E)
        /\ chunksize(u, p) = chunksize(a, p) /\ chunksize(u, q) = chunksize(a, q)
        /\ ~ is_valid(u, q) /\ (s # p => ~ is_valid(u, s))
    BY <1>1, <1>3, <2>1, <2>6 DEF Unlinked, LinksOnly
  <2>9. Tagged(u, D, s, {q, p}) /\ p = q + chunksize(u, q)
    <3>1. {p} \subseteq {q, p}
      OBVIOUS
    <3> QED
      BY <2>1, <2>8, <3>1, TaggedMore
  <2>10. PICK B : B = D \ {p}
    OBVIOUS
  <2>11. PICK w : w = IF p = s THEN q ELSE s
    OBVIOUS
  <2>12. Merged(g, u, D, s, N, q, p, B, w)
    BY <2>1, <2>4, <2>7, <2>9, <2>10, <2>11, Merges
  <2>13. /\ Part(g, B, w, N, {q}) /\ Tagged(g, B, w, {q}) /\ q \in B /\ g.top = t /\ g.brk = h.brk
         /\ ~ is_valid(g, q)
    BY <2>8, <2>12 DEF Merged
  <2>14. chunksize(g, q) >= 16
    <3>1. chunksize(g, q) = chunksize(a, q) + chunksize(a, p)
      BY <2>8, <2>12 DEF Merged
    <3>2. chunksize(a, p) \in Int /\ chunksize(a, q) \in Int /\ chunksize(a, q) >= 8
      BY <1>1, <1>3, <2>1, Chunk
    <3> QED
      BY <1>1, <3>1, <3>2
  <2>15. ~ is_valid(h, q)
    <3>1. q \in C \ {p}
      BY <1>1, <2>1
    <3> QED
      BY <1>1, <2>1, <3>1 DEF Keeps
  <2>16. Keeps(g, B, h, C, {p})
    <3>1. Keeps(g, B, u, D, {q, p})
      BY <2>12 DEF Merged
    <3>2. Keeps(u, D, a, D, {q, p})
      BY <2>8
    <3>3. Keeps(a, D, h, C, {q, p})
      <4>1. {p} \subseteq {q, p}
        OBVIOUS
      <4> QED
        BY <1>1, <4>1, KeepsMore
    <3>4. Keeps(g, B, h, C, {q, p})
      <4>1. Keeps(u, D, h, C, {q, p})
        BY <3>2, <3>3, KeepsAgain
      <4> QED
        BY <3>1, <4>1, KeepsAgain
    <3>5. Keeps(g, B, h, C, {q, p} \ {q})
      BY <2>13, <2>15, <3>4, KeepsLess
    <3>6. {q, p} \ {q} = {p}
      BY <2>1
    <3> QED
      BY <3>5, <3>6
  <2>17. w # q => ~ is_valid(g, w)
    <3>1. SUFFICES ASSUME w # q PROVE ~ is_valid(g, w)
      OBVIOUS
    <3>2. w = s /\ s # p /\ s \in B \ {q}
      BY <1>3, <2>10, <2>11, <3>1
    <3>3. is_valid(g, s) <=> is_valid(u, s)
      BY <2>12, <3>2 DEF Merged
    <3> QED
      BY <2>8, <3>2, <3>3
  <2>18. w = (IF p + chunksize(h, p) = t THEN q ELSE t)
    <3>1. CASE p + chunksize(h, p) = t
      BY <1>1, <2>11, <3>1
    <3>2. CASE p + chunksize(h, p) # t
      <4>1. s = t
        BY <1>1, <3>2
      <4>2. p # s
        BY <1>1, <4>1
      <4> QED
        BY <2>11, <3>2, <4>1, <4>2
    <3> QED
      BY <3>1, <3>2
  <2>19. B \subseteq C /\ p \notin B
    BY <1>1, <2>10
  <2>20. Joined(g, h, C, t, p, q, B, w)
    BY <1>1, <2>13, <2>14, <2>15, <2>16, <2>17, <2>18, <2>19 DEF Joined
  <2> QED
    BY <2>5, <2>20
<1> QED
  BY <1>5, <1>6

\* The chunk p of h is not in use any more
Released(g, h, C, p, D, s) ==
  /\ \E M : Sound(g, D, s, M)
  /\ Keeps(g, D, h, C, {p})
  /\ p \in D => ~ is_valid(g, p)
  /\ g.brk = h.brk

\* What was merged is the top, or goes to the unsorted bin
LEMMA FreesJoined ==
  ASSUME NEW e, NEW h, NEW C, NEW t, NEW p, NEW r, NEW D, NEW s, Joined(e, h, C, t, p, r, D, s),
         NEW f, SameMemory(f, e), f.top = s,
         NEW g, g = Freed([h |-> f, p |-> r])
  PROVE  Released(g, h, C, p, D, s)
<1>1. /\ Tagged(e, D, s, {r}) /\ r \in D /\ e.brk = h.brk
      /\ Keeps(e, D, h, C, {p})
      /\ chunksize(e, r) >= 16
      /\ s # r => ~ is_valid(e, s)
      /\ r # p => ~ is_valid(h, r) /\ ~ is_valid(e, r) /\ p \notin D
  BY DEF Joined
<1>2. PICK M : Part(e, D, s, M, {r})
  BY DEF Joined
<1>3. /\ Part(f, D, s, M, {r}) /\ Tagged(f, D, s, {r}) /\ Keeps(f, D, h, C, {p})
      /\ chunksize(f, r) = chunksize(e, r) /\ f.brk = h.brk
      /\ s # r => ~ is_valid(f, s)
  BY <1>1, <1>2, TopChange DEF SameMemory
<1>4. PICK u : u = Unused(f, r)
  OBVIOUS
<1>5. Marked(u, f, D, s, M, r, {r})
  BY <1>1, <1>3, <1>4, MarksUnused
<1>6. /\ Part(u, D, s, M, {r}) /\ Tagged(u, D, s, {}) /\ Keeps(u, D, f, D, {r})
      /\ u.top = s /\ u.brk = h.brk /\ chunksize(u, r) >= 16
      /\ ~ is_valid(u, r) /\ ~ is_valid(u, s)
  <2>1. {r} # {}
    OBVIOUS
  <2> QED
    BY <1>1, <1>3, <1>5, <2>1 DEF Marked
<1>7. Keeps(u, D, h, C, {p})
  <2>1. CASE r = p
    BY <1>3, <1>6, <2>1, KeepsAgain
  <2>2. CASE r # p
    <3>1. Keeps(f, D, h, C, {p, r}) /\ Keeps(u, D, f, D, {p, r})
      <4>1. {p} \subseteq {p, r} /\ {r} \subseteq {p, r}
        OBVIOUS
      <4> QED
        BY <1>3, <1>6, <4>1, KeepsMore
    <3>2. Keeps(u, D, h, C, {p, r})
      BY <3>1, KeepsAgain
    <3>3. Keeps(u, D, h, C, {p, r} \ {r})
      BY <1>1, <1>6, <2>2, <3>2, KeepsLess
    <3>4. {p, r} \ {r} = {p}
      BY <2>2
    <3> QED
      BY <3>3, <3>4
  <2> QED
    BY <2>1, <2>2
<1>8. p \in D => ~ is_valid(u, p)
  BY <1>1, <1>6
<1>9. CASE r = s
  <2>1. g = u
    BY <1>4, <1>9 DEF Freed
  <2>2. Part(u, D, s, M, {})
    BY <1>6, <1>9, LimboLess
  <2>3. Sound(u, D, s, M)
    BY <1>6, <2>2, SoundIs
  <2> QED
    BY <1>6, <1>7, <1>8, <2>1, <2>3 DEF Released
<1>10. CASE r # s
  <2>1. g = append_chunk_unsorted(u, r)
    BY <1>4, <1>10 DEF Freed
  <2>2. r \in {r}
    OBVIOUS
  <2>3. Inserted(g, u, D, s, M, {r}, r, UNSORTED)
    BY <1>1, <1>6, <1>10, <2>1, <2>2, AppendsUnsorted
  <2>4. PICK N : Part(g, D, s, N, {r} \ {r})
    BY <2>3, InsertedPart
  <2>5. s \in D
    BY <1>2 DEF Part, Shape
  <2>6. /\ Tagged(g, D, s, {}) /\ g.top = s /\ g.brk = h.brk
        /\ Keeps(g, D, u, D, {p}) /\ ~ is_valid(g, s)
        /\ p \in D => ~ is_valid(g, p)
    BY <1>6, <1>8, <2>3, <2>5, InsertedPart
  <2>7. Part(g, D, s, N, {})
    <3>1. {r} \ {r} = {}
      OBVIOUS
    <3> QED
      BY <2>4, <3>1
  <2>8. Sound(g, D, s, N)
    BY <2>6, <2>7, SoundIs
  <2>9. Keeps(g, D, h, C, {p})
    BY <1>7, <2>6, KeepsAgain
  <2> QED
    BY <2>6, <2>8, <2>9 DEF Released
<1> QED
  BY <1>9, <1>10

\* mm_free (mm.c:497).
LEMMA Frees ==
  ASSUME NEW h, NEW C, NEW t, NEW L, Sound(h, C, t, L), NEW p \in C, is_valid(h, p), chunksize(h, p) >= 16,
         NEW g, g = mm_free(h, p + 8)
  PROVE  \E D, s : Released(g, h, C, p, D, s)
<1>1. Shape(h, C, t) /\ p \in Nat /\ t \in C /\ h.top = t
  <2>1. Shape(h, C, t) /\ h.top = t
    BY DEF Sound
  <2> QED
    BY <2>1, Chunk DEF Shape
<1>2. mem2chunk(p + 8) = p
  BY <1>1 DEF mem2chunk
<1>3. PICK a : a = MergeNext(h, p)
  OBVIOUS
<1>4. PICK m : m = MergePrev(a, p)
  OBVIOUS
<1>5. PICK q : q = next_chunk(h, p)
  OBVIOUS
<1>6. g = Freed(TopIfMerged(m, q))
  BY <1>2, <1>3, <1>4, <1>5 DEF mm_free, coalesce_chunk
<1>7. PICK B, w : Joined(a, h, C, t, p, p, B, w)
  BY <1>3, JoinsNext
<1>8. PICK e : e = m.h
  OBVIOUS
<1>9. PICK r : r = m.p
  OBVIOUS
<1>10. PICK D, s : Joined(e, h, C, t, p, r, D, s)
  BY <1>4, <1>7, <1>8, <1>9, JoinsPrev
<1>11. m = [h |-> e, p |-> r]
  <2>1. m = [h |-> m.h, p |-> m.p]
    BY <1>4 DEF MergePrev
  <2> QED
    BY <1>8, <1>9, <2>1
<1>12. e \in Heaps /\ e.top = t /\ r \in Int /\ s = (IF q = t THEN r ELSE t)
  <2>1. q = p + chunksize(h, p)
    BY <1>5 DEF next_chunk
  <2>2. r \in D /\ e.top = t /\ s = (IF q = t THEN r ELSE t)
    BY <1>10, <2>1 DEF Joined
  <2>3. Shape(e, D, s)
    BY <1>10 DEF Joined, Part
  <2>4. r \in Nat /\ e \in Heaps
    BY <2>2, <2>3, Chunk DEF Shape
  <2> QED
    BY <2>2, <2>4
<1>13. PICK f : f = IF q = t THEN [e EXCEPT !.top = r] ELSE e
  OBVIOUS
<1>14. TopIfMerged(m, q) = [h |-> f, p |-> r]
  BY <1>11, <1>12, <1>13 DEF TopIfMerged
<1>15. SameMemory(f, e) /\ f.top = s
  BY <1>12, <1>13 DEF SameMemory, Heaps
<1>16. g = Freed([h |-> f, p |-> r])
  BY <1>6, <1>14
<1> QED
  BY <1>10, <1>15, <1>16, FreesJoined

-----------------------------------------------------------------------------
(* The user's data. *)

\* Only words of the user in the chunk p differ
Wrote(g, h, p) ==
  /\ SameBounds(g, h)
  /\ \A a \in Cells : ~ (p < a /\ a < p + chunksize(h, p)) => size(g, a) = size(h, a)
  /\ \A y \in Slots : ~ (p < y /\ y <= p + chunksize(h, p)) => prev_size(g, y) = prev_size(h, y)

WrittenOnly(g, h, C, t, L, p) ==
  /\ Sound(g, C, t, L) /\ Keeps(g, C, h, C, {p}) /\ g.brk = h.brk
  /\ is_valid(g, p) /\ chunksize(g, p) = chunksize(h, p)

\* The package does not look at what the user writes.
LEMMA Writes ==
  ASSUME NEW h, NEW C, NEW t, NEW L, Sound(h, C, t, L), NEW p \in C, is_valid(h, p),
         NEW g, Wrote(g, h, p)
  PROVE  WrittenOnly(g, h, C, t, L, p)
<1>1. /\ Part(h, C, t, L, {}) /\ Shape(h, C, t) /\ Lists(h, L) /\ FreeListed(h, C, t, L, {})
      /\ Tagged(h, C, t, {}) /\ h.top = t /\ ~ is_valid(h, t) /\ t \in C
      /\ p \in Nat /\ chunksize(h, p) \in Int
  <2>1. /\ Part(h, C, t, L, {}) /\ Shape(h, C, t) /\ Lists(h, L) /\ FreeListed(h, C, t, L, {})
        /\ Tagged(h, C, t, {}) /\ h.top = t /\ ~ is_valid(h, t) /\ t \in C
    BY DEF Sound, Part, Shape
  <2> QED
    BY <2>1, Chunk
<1>2. \A c \in C : size(g, c) = size(h, c)
  <2>1. \A c \in C : c \in Cells /\ ~ (p < c /\ c < p + chunksize(h, p))
    <3>1. \A c \in C : c \in Cells
      BY <1>1, Chunk
    <3> QED
      BY <1>1, <3>1, Inside
  <2> QED
    BY <2>1 DEF Wrote
<1>3. \A c \in C : /\ chunksize(g, c) = chunksize(h, c)
                   /\ is_valid(g, c) <=> is_valid(h, c)
                   /\ prev_inuse(g, c) <=> prev_inuse(h, c)
  BY <1>2, SameHeader
<1>4. ASSUME NEW q \in C, q # p
      PROVE  /\ Kept(g, h, q)
             /\ q # t => prev_size(g, q + chunksize(h, q)) = prev_size(h, q + chunksize(h, q))
  <2>1. ASSUME NEW a \in Cells, q < a, a <= q + chunksize(h, q), p < a, a <= p + chunksize(h, p)
        PROVE  FALSE
    <3>1. a \in Nat /\ q \in Nat /\ chunksize(h, q) \in Int
      BY <1>1, Chunk, CellNumbers
    <3>2. q < p => q + chunksize(h, q) <= p
      BY <1>1, Chunk
    <3>3. p < q => p + chunksize(h, p) <= q
      BY <1>1, Chunk
    <3> QED
      BY <1>1, <1>4, <2>1, <3>1, <3>2, <3>3
  <2>2. \A a \in Cells : /\ p < a /\ a < p + chunksize(h, p) => a <= p + chunksize(h, p)
                         /\ q < a /\ a < q + chunksize(h, q) => a <= q + chunksize(h, q)
                         /\ a \in Slots
    <3>1. chunksize(h, q) \in Int /\ q \in Nat
      BY <1>1, Chunk
    <3>2. \A a \in Cells : a \in Nat
      BY CellNumbers
    <3> QED
      BY <1>1, <3>1, <3>2 DEF Slots
  <2>3. Kept(g, h, q)
    BY <2>1, <2>2 DEF Kept, Wrote
  <2>4. q # t => q + chunksize(h, q) \in Cells /\ q < q + chunksize(h, q) /\ q + chunksize(h, q) <= q + chunksize(h, q)
    <3>1. q # t => q + chunksize(h, q) \in C
      BY <1>1, Chunk
    <3>2. q \in Nat /\ chunksize(h, q) \in Int /\ chunksize(h, q) >= 8
      BY <1>1, Chunk
    <3>3. \A c \in C : c \in Cells
      BY <1>1, Chunk
    <3> QED
      BY <3>1, <3>2, <3>3
  <2> QED
    BY <2>3, <2>4 DEF Kept
<1>5. Shape(g, C, t)
  BY <1>1, <1>3 DEF Shape, Wrote, SameBounds
<1>6. Tagged(g, C, t, {})
  <2>1. \A c \in C : c # t => c + chunksize(h, c) \in C
    BY <1>1 DEF Shape
  <2>2. \A c \in C : ~ is_valid(h, c) => c # p
    OBVIOUS
  <2> QED
    BY <1>1, <1>3, <1>4, <2>1, <2>2 DEF Tagged
<1>7. Lists(g, L)
  <2>1. \A b \in Bins : prev_size(g, b) = prev_size(h, b)
    <3>1. \A b \in Bins : b \in Slots /\ b \in Nat /\ b < 40
      BY DEF Slots, Bins, UNSORTED, SMALL, MIDDLE, LARGE, HUGE
    <3>2. 40 <= p
      BY <1>1, Chunk
    <3> QED
      BY <1>1, <3>1, <3>2 DEF Wrote
  <2>2. ASSUME NEW q \in Listed(L)
        PROVE  /\ size(g, q + 8) = size(h, q + 8)
               /\ prev_size(g, q + 8) = prev_size(h, q + 8)
               /\ chunksize(g, q) = chunksize(h, q)
    <3>1. q \in C /\ q # t /\ ~ is_valid(h, q) /\ chunksize(h, q) >= 16
      BY <1>1, <2>2, ListedChunks
    <3>2. q + 8 \in Cells /\ q # p
      BY <1>1, <2>2, <3>1, ListedLinks
    <3>3. q \in Nat /\ chunksize(h, q) \in Int
      BY <1>1, <3>1, Chunk
    <3>4. PICK a : a = q + 8
      OBVIOUS
    <3>5. a \in Cells /\ q < a /\ a < q + chunksize(h, q)
      BY <3>1, <3>2, <3>3, <3>4
    <3>6. size(g, a) = size(h, a) /\ prev_size(g, a) = prev_size(h, a)
      <4>1. Kept(g, h, q)
        BY <1>4, <3>1, <3>2
      <4>2. a <= q + chunksize(h, q)
        BY <3>1, <3>3, <3>4
      <4> QED
        BY <3>5, <4>1, <4>2 DEF Kept
    <3> QED
      BY <1>3, <3>1, <3>4, <3>6
  <2> QED
    BY <1>1, <2>1, <2>2, ListsFrame
<1>8. FreeListed(g, C, t, L, {})
  <2>1. \A q \in Listed(L) : q \in C
    BY <1>1, ListedChunks
  <2> QED
    BY <1>1, <1>3, <2>1 DEF FreeListed
<1>9. Keeps(g, C, h, C, {p})
  BY <1>3, <1>4 DEF Keeps
<1>10. g.top = h.top /\ g.brk = h.brk
  BY DEF Wrote, SameBounds
<1> QED
  BY <1>1, <1>3, <1>5, <1>6, <1>7, <1>8, <1>9, <1>10 DEF Sound, WrittenOnly

\* The words of n bytes at the chunk p
User(p, n) == Payload([lo |-> p + 8, size |-> n])

\* The words of a block, by their addresses.
LEMMA UserWords ==
  ASSUME NEW p \in Nat, p % 8 = 0, NEW n \in Nat, n % 4 = 0
  PROVE  /\ \A w : w \in User(p, n) <=> w \in Int /\ p + 8 <= 4 * w /\ 4 * w < p + 8 + n
         /\ word(p + 8) \in Int /\ 4 * word(p + 8) = p + 8
<1>1. PICK k \in Int : p = 8 * k
  <2>1. p = 8 * (p \div 8) /\ p \div 8 \in Int
    OBVIOUS
  <2> QED
    BY <2>1
<1>2. PICK j \in Int : n = 4 * j
  <2>1. n = 4 * (n \div 4) /\ n \div 4 \in Int
    OBVIOUS
  <2> QED
    BY <2>1
<1>3. word(p + 8) = 2 * k + 2
  BY <1>1 DEF word
<1>4. word(p + 8 + n) = 2 * k + 2 + j
  BY <1>1, <1>2 DEF word
<1>5. User(p, n) = (2 * k + 2) .. (2 * k + 2 + j) - 1
  BY <1>3, <1>4 DEF User, Payload
<1>6. \A w : w \in User(p, n) <=> w \in Int /\ p + 8 <= 4 * w /\ 4 * w < p + 8 + n
  BY <1>1, <1>2, <1>5
<1> QED
  BY <1>1, <1>3, <1>6

\* They are fields of the cells in the chunk, and of the one after it
LEMMA UserCells ==
  ASSUME NEW h, NEW C, NEW t, Shape(h, C, t), NEW p \in C, p # t,
         NEW n \in Nat, n % 4 = 0, n + 4 <= chunksize(h, p), NEW w \in User(p, n)
  PROVE  \E a \in Cells : \/ w = word(a) /\ p < a /\ a <= p + chunksize(h, p)
                          \/ w = word(a) + 1 /\ p < a /\ a < p + chunksize(h, p)
<1>1. p \in Nat /\ p % 8 = 0 /\ 40 <= p /\ chunksize(h, p) \in Int /\ chunksize(h, p) % 8 = 0
  BY Chunk
<1>2. p + chunksize(h, p) < HeapEnd /\ HeapEnd \in Int
  <2>1. PICK c : c = p + chunksize(h, p)
    OBVIOUS
  <2>2. c \in C
    BY <2>1, Chunk
  <2>3. c \in Cells
    BY <2>2, Chunk
  <2> QED
    BY <2>1, <2>3, CellNumbers, Constants
<1>3. w \in Int /\ p + 8 <= 4 * w /\ 4 * w < p + 8 + n
  BY <1>1, UserWords
<1>4. CASE w % 2 = 0
  <2>1. PICK a : a = 4 * w
    OBVIOUS
  <2>2. a \in Int /\ a % 8 = 0 /\ word(a) = w
    <3>1. PICK k \in Int : w = 2 * k
      <4>1. w = 2 * (w \div 2) /\ w \div 2 \in Int
        BY <1>3, <1>4
      <4> QED
        BY <4>1
    <3> QED
      BY <2>1, <3>1 DEF word
  <2>3. p < a /\ a <= p + chunksize(h, p)
    BY <1>1, <1>3, <2>1, <2>2
  <2>4. a \in Cells
    <3>1. 40 <= a /\ a < HeapEnd
      BY <1>1, <1>2, <2>2, <2>3
    <3> QED
      BY <2>2, <3>1, CellNumbers
  <2> QED
    BY <2>2, <2>3, <2>4
<1>5. CASE w % 2 # 0
  <2>1. PICK a : a = 4 * w - 4
    OBVIOUS
  <2>2. a \in Int /\ a % 8 = 0 /\ word(a) + 1 = w
    <3>1. PICK k \in Int : w = 2 * k + 1
      <4>1. w = 2 * (w \div 2) + 1 /\ w \div 2 \in Int
        BY <1>3, <1>5
      <4> QED
        BY <4>1
    <3> QED
      BY <2>1, <3>1 DEF word
  <2>3. p < a /\ a < p + chunksize(h, p)
    BY <1>1, <1>3, <2>1, <2>2
  <2>4. a \in Cells
    <3>1. 40 <= a /\ a < HeapEnd
      BY <1>1, <1>2, <2>2, <2>3
    <3> QED
      BY <2>2, <3>1, CellNumbers
  <2> QED
    BY <2>2, <2>3, <2>4
<1> QED
  BY <1>4, <1>5

\* The words of a block are in the heap.
LEMMA UserInHeap ==
  ASSUME NEW h, NEW C, NEW t, Shape(h, C, t), NEW p \in C, p # t,
         NEW n \in Nat, n % 4 = 0, n + 4 <= chunksize(h, p)
  PROVE  User(p, n) \subseteq Words
BY UserCells, CellWords

\* What is kept of a chunk are the words of its block.
LEMMA KeptWords ==
  ASSUME NEW h, NEW C, NEW t, Shape(h, C, t), NEW p \in C, p # t,
         NEW n \in Nat, n % 4 = 0, n + 4 <= chunksize(h, p), NEW g, Kept(g, h, p)
  PROVE  \A w \in User(p, n) : g.m[w] = h.m[w]
<1>1. ASSUME NEW w \in User(p, n)
      PROVE  g.m[w] = h.m[w]
  <2>1. PICK a \in Cells : \/ w = word(a) /\ p < a /\ a <= p + chunksize(h, p)
                           \/ w = word(a) + 1 /\ p < a /\ a < p + chunksize(h, p)
    BY <1>1, UserCells
  <2>2. CASE w = word(a) /\ p < a /\ a <= p + chunksize(h, p)
    BY <2>2 DEF Kept, prev_size
  <2>3. CASE w = word(a) + 1 /\ p < a /\ a < p + chunksize(h, p)
    BY <2>3 DEF Kept, size
  <2> QED
    BY <2>1, <2>2, <2>3
<1> QED
  BY <1>1

\* Writes to a block touch the words of its chunk only.
LEMMA WritesWords ==
  ASSUME NEW h, NEW C, NEW t, Shape(h, C, t), NEW p \in C, p # t,
         NEW n \in Nat, n % 4 = 0, n + 4 <= chunksize(h, p), NEW g, SameBounds(g, h),
         \A w \in Words : w \notin User(p, n) => g.m[w] = h.m[w]
  PROVE  Wrote(g, h, p)
<1>1. p \in Nat /\ p % 8 = 0 /\ chunksize(h, p) \in Int /\ chunksize(h, p) % 8 = 0
  BY Chunk
<1>2. ASSUME NEW a \in Cells, ~ (p < a /\ a < p + chunksize(h, p))
      PROVE  size(g, a) = size(h, a)
  <2>1. PICK w : w = word(a) + 1
    OBVIOUS
  <2>2. w \in Words /\ w \in Int /\ 4 * w = a + 4 /\ a \in Nat
    <3>1. word(a) + 1 \in Words /\ 4 * word(a) = a /\ word(a) + 1 \in Nat /\ a \in Nat
      BY CellWords, CellNumbers
    <3>2. word(a) \in Int
      BY <3>1 DEF word
    <3> QED
      BY <2>1, <3>1, <3>2
  <2>3. w \notin User(p, n)
    <3>1. SUFFICES ASSUME w \in User(p, n) PROVE FALSE
      OBVIOUS
    <3>2. p + 8 <= 4 * w /\ 4 * w < p + 8 + n
      BY <1>1, <3>1, UserWords
    <3> QED
      BY <1>1, <1>2, <2>2, <3>2
  <2> QED
    BY <2>1, <2>2, <2>3 DEF size
<1>3. ASSUME NEW y \in Slots, ~ (p < y /\ y <= p + chunksize(h, p))
      PROVE  prev_size(g, y) = prev_size(h, y)
  <2>1. PICK w : w = word(y)
    OBVIOUS
  <2>2. w \in Words /\ w \in Int /\ 4 * w = y /\ y \in Nat
    BY <2>1, CellWords DEF word
  <2>3. w \notin User(p, n)
    <3>1. SUFFICES ASSUME w \in User(p, n) PROVE FALSE
      OBVIOUS
    <3>2. p + 8 <= 4 * w /\ 4 * w < p + 8 + n
      BY <1>1, <3>1, UserWords
    <3> QED
      BY <1>1, <1>3, <2>2, <3>2
  <2> QED
    BY <2>1, <2>2, <2>3 DEF prev_size
<1> QED
  BY <1>2, <1>3 DEF Wrote

\* The heap g after its user wrote to the block b
Written(g, e, i, b) == g = [m |-> Filled(e.m, i, b), top |-> e.top, brk |-> e.brk]

FilledAt(g, h, p, b, i) == Wrote(g, h, p) /\ \A w \in Payload(b) : g.m[w] = Fill(i)

\* memset of a block, by its user
LEMMA Fills ==
  ASSUME NEW h, NEW C, NEW t, Shape(h, C, t), NEW p \in C, p # t,
         NEW n \in Nat, n % 4 = 0, n + 4 <= chunksize(h, p),
         NEW i \in Ids, NEW b, b = [lo |-> p + 8, size |-> n],
         NEW g, Written(g, h, i, b)
  PROVE  FilledAt(g, h, p, b, i)
<1>1. Payload(b) = User(p, n)
  BY DEF User
<1>2. Fill(i) \in Int
  <2>1. i \in Int
    BY IdsAssumption
  <2> QED
    BY <2>1 DEF Fill
<1>3. h \in Heaps
  BY DEF Shape
<1>4. PICK v : v = Fill(i)
  OBVIOUS
<1>5. g.m = [w \in Words |-> IF w \in User(p, n) THEN v ELSE h.m[w]]
  BY <1>1, <1>4 DEF Filled, Written
<1>6. SameBounds(g, h)
  <2>1. g.m \in [Words -> Int]
    BY <1>2, <1>3, <1>4, <1>5 DEF Heaps
  <2>2. g.top = h.top /\ g.brk = h.brk /\ g = [m |-> g.m, top |-> h.top, brk |-> h.brk]
    BY DEF Written
  <2> QED
    BY <1>3, <2>1, <2>2 DEF SameBounds, Heaps
<1>7. Wrote(g, h, p)
  BY <1>5, <1>6, WritesWords
<1>8. User(p, n) \subseteq Words
  BY UserInHeap
<1> QED
  BY <1>1, <1>4, <1>5, <1>7, <1>8 DEF FilledAt

\* The first m bytes of the user at q of g are those at p of h
Same(g, q, h, p, m) == \A w \in User(q, m) : \E v \in User(p, m) : g.m[w] = h.m[v]

\* The user has a copy of n bytes of p at q
Copied(g, h, q, p, n) ==
  /\ Wrote(g, h, q)
  /\ \A m \in Nat : m % 4 = 0 /\ m <= n /\ m + 4 <= chunksize(h, p) => Same(g, q, h, p, m)

\* memcpy to a new block
LEMMA Copies ==
  ASSUME NEW h, NEW C, NEW t, Shape(h, C, t), NEW q \in C, q # t, NEW p \in C, p # t,
         NEW n \in Nat, n % 4 = 0, n + 4 <= chunksize(h, q),
         NEW g, g = Copy(h, p + 8, q + 8, n)
  PROVE  Copied(g, h, q, p, n)
<1> DEFINE source(w) == w - word(q + 8) + word(p + 8)
<1>1. h \in Heaps /\ p \in Nat /\ p % 8 = 0 /\ q \in Nat /\ q % 8 = 0
  <2>1. h \in Heaps
    BY DEF Shape
  <2> QED
    BY <2>1, Chunk
<1>2. Payload([lo |-> q + 8, size |-> n]) = User(q, n)
  BY DEF User
<1>3. g = [h EXCEPT !.m = [w \in Words |-> IF w \in User(q, n) /\ source(w) \in Words
                                          THEN h.m[source(w)] ELSE h.m[w]]]
  BY <1>2 DEF Copy
<1> HIDE DEF source
<1>4. g.m = [w \in Words |-> IF w \in User(q, n) /\ source(w) \in Words THEN h.m[source(w)] ELSE h.m[w]]
  BY <1>1, <1>3 DEF Heaps
<1>5. SameBounds(g, h)
  <2>1. g.m \in [Words -> Int]
    BY <1>1, <1>4 DEF Heaps
  <2> QED
    BY <1>1, <1>3, <1>4, <2>1 DEF SameBounds, Heaps
<1>6. Wrote(g, h, q)
  BY <1>4, <1>5, WritesWords
<1>7. ASSUME NEW m \in Nat, m % 4 = 0, m <= n, m + 4 <= chunksize(h, p), NEW w \in User(q, m)
      PROVE  \E v \in User(p, m) : g.m[w] = h.m[v]
  <2>1. w \in Int /\ q + 8 <= 4 * w /\ 4 * w < q + 8 + m
    BY <1>1, <1>7, UserWords
  <2>2. w \in User(q, n)
    <3>1. 4 * w < q + 8 + n
      BY <1>1, <1>7, <2>1
    <3>2. w \in User(q, n) <=> w \in Int /\ q + 8 <= 4 * w /\ 4 * w < q + 8 + n
      BY <1>1, UserWords, ZenonT(30)
    <3> QED
      BY <2>1, <3>1, <3>2
  <2>3. source(w) \in Int /\ 4 * source(w) = 4 * w - q + p
    <3>1. word(q + 8) \in Int /\ 4 * word(q + 8) = q + 8
      BY <1>1, UserWords
    <3>2. word(p + 8) \in Int /\ 4 * word(p + 8) = p + 8
      BY <1>1, UserWords
    <3>3. source(w) = w - word(q + 8) + word(p + 8)
      BY DEF source
    <3> QED
      BY <1>1, <2>1, <3>1, <3>2, <3>3
  <2>4. source(w) \in User(p, m)
    <3>1. p + 8 <= 4 * source(w) /\ 4 * source(w) < p + 8 + m
      BY <1>1, <1>7, <2>1, <2>3
    <3>2. PICK v : v = source(w)
      OBVIOUS
    <3> QED
      BY <1>1, <1>7, <2>3, <3>1, <3>2, UserWords
  <2>5. source(w) \in Words /\ w \in Words
    BY <1>7, <2>2, <2>4, UserInHeap
  <2>6. g.m[w] = h.m[source(w)]
    BY <1>4, <2>2, <2>5
  <2> QED
    BY <2>4, <2>6
<1> QED
  BY <1>6, <1>7 DEF Copied, Same

-----------------------------------------------------------------------------
(* realloc *)

\* A chunk that is kept has the same data.
LEMMA KeptSame ==
  ASSUME NEW h, NEW C, NEW t, Shape(h, C, t), NEW p \in C, p # t, NEW g, Kept(g, h, p)
  PROVE  \A m \in Nat : m % 4 = 0 /\ m + 4 <= chunksize(h, p) => Same(g, p, h, p, m)
BY KeptWords DEF Same

\* The user has the chunk q of g, of k bytes or up to 16 more, instead of the chunk p of h.
\* The user's data was copied, if it was not cut
Resized(g, h, C, p, q, n, k, D, s) ==
  /\ \E M : Sound(g, D, s, M)
  /\ Keeps(g, D, h, C, {p, q})
  /\ q \in D /\ q # s /\ is_valid(g, q)
  /\ k <= chunksize(g, q) /\ chunksize(g, q) <= k + 16
  /\ q # p => (q \in C => ~ is_valid(h, q)) /\ (p \in D => ~ is_valid(g, p))
  /\ g.brk >= h.brk /\ (Steps(h.brk) => Steps(g.brk))
  /\ \A m \in Nat : m % 4 = 0 /\ m <= n /\ m + 4 <= chunksize(h, p) /\ chunksize(h, p) <= k + 16 =>
       Same(g, q, h, p, m)

\* A block that is large enough stays (mm.c:521).
LEMMA Shrinks ==
  ASSUME NEW h, NEW C, NEW t, NEW L, Sound(h, C, t, L), NEW p \in C, is_valid(h, p),
         NEW n, NEW k \in Int, k % 8 = 0, k >= 8, chunksize(h, p) >= k,
         NEW g, g = split_and_append(h, p, k)
  PROVE  \E D : Resized(g, h, C, p, p, n, k, D, t)
<1>1. /\ Part(h, C, t, L, {}) /\ Tagged(h, C, t, {}) /\ h.top = t /\ ~ is_valid(h, t)
      /\ Shape(h, C, t) /\ FreeListed(h, C, t, L, {}) /\ p # t /\ h.brk \in Int
  BY SoundIs DEF Part, Shape, Heaps
<1>2. Part(h, C, t, L, {p})
  <2>1. p \notin Listed(L)
    BY <1>1, ListedChunks
  <2>2. Part(h, C, t, L, {} \cup {p}) /\ {} \cup {p} = {p}
    BY <1>1, <2>1, LimboMore
  <2> QED
    BY <2>2
<1>3. PICK D : Trimmed(g, h, C, t, p, k, D)
  BY <1>1, <1>2, Trims
<1>4. /\ p \in D /\ Tagged(g, D, t, {}) /\ g.top = t /\ g.brk = h.brk
      /\ Keeps(g, D, h, C, {p})
      /\ k <= chunksize(g, p) /\ chunksize(g, p) <= k + 16
      /\ is_valid(g, p) /\ ~ is_valid(g, t)
      /\ chunksize(h, p) <= k + 16 => g = h
  BY <1>1, <1>3 DEF Trimmed
<1>5. PICK M : Part(g, D, t, M, {p})
  BY <1>3 DEF Trimmed
<1>6. Part(g, D, t, M, {})
  BY <1>4, <1>5, LimboLess
<1>7. Sound(g, D, t, M)
  BY <1>4, <1>6, SoundIs
<1>8. {p, p} = {p}
  OBVIOUS
<1>9. \A m \in Nat : m % 4 = 0 /\ m + 4 <= chunksize(h, p) => Same(h, p, h, p, m)
  BY DEF Same
<1>10. g.brk >= h.brk
  BY <1>1, <1>4
<1> QED
  BY <1>1, <1>4, <1>7, <1>8, <1>9, <1>10 DEF Resized

\* The chunk p in use has the free chunk q, too
Absorbed(g, e, C, t, L, p, q, D) ==
  /\ Part(g, D, t, L, {}) /\ Tagged(g, D, t, {}) /\ p \in D
  /\ g.top = e.top /\ g.brk = e.brk
  /\ Keeps(g, D, e, C, {p, q}) /\ Kept(g, e, p)
  /\ chunksize(g, p) = chunksize(e, p) + chunksize(e, q)
  /\ is_valid(g, p) /\ (is_valid(g, t) <=> is_valid(e, t))

\* A block in use gets the free chunk after it (mm.c:426).
LEMMA Absorbs ==
  ASSUME NEW e, NEW C, NEW t, NEW L, NEW p \in C, p # t, NEW q, q = p + chunksize(e, p), q # t, q \in C,
         Part(e, C, t, L, {p, q}), Tagged(e, C, t, {p, q}), is_valid(e, p),
         NEW g, g = Absorb(e, p, q), NEW D, D = C \ {q}
  PROVE  Absorbed(g, e, C, t, L, p, q, D)
<1>1. PICK f : f = Extend(e, p, q)
  OBVIOUS
<1>2. PICK s : s = IF q = t THEN p ELSE t
  OBVIOUS
<1>3. s = t
  BY <1>2
<1>4. Merged(f, e, C, t, L, p, q, D, s)
  BY <1>1, <1>2, Merges
<1>5. /\ Part(f, D, t, L, {p}) /\ Tagged(f, D, t, {p}) /\ p \in D
      /\ f.top = e.top /\ f.brk = e.brk
      /\ Keeps(f, D, e, C, {p, q}) /\ Kept(f, e, p)
      /\ chunksize(f, p) = chunksize(e, p) + chunksize(e, q)
      /\ is_valid(f, p) /\ t \in D /\ (is_valid(f, t) <=> is_valid(e, t))
  <2>1. t \in D
    BY <1>3, <1>4 DEF Merged, Part, Shape
  <2> QED
    BY <1>3, <1>4, <2>1 DEF Merged
<1>6. PICK c : c = next_chunk(f, p)
  OBVIOUS
<1>7. Shape(f, D, t) /\ f \in Heaps
  BY <1>5 DEF Part, Shape
<1>8. c = p + chunksize(f, p) /\ c \in D /\ c \in Cells /\ chunksize(f, p) \in Int
  <2>1. c = p + chunksize(f, p) /\ c \in D
    BY <1>5, <1>6, <1>7, NextChunk
  <2> QED
    BY <1>5, <1>7, <2>1, Chunk
<1>9. PICK u : u = set_prev_size(f, c, chunksize(f, p))
  OBVIOUS
<1>10. g = set_prev_inuse(u, c)
  BY <1>1, <1>6, <1>9 DEF Absorb
<1>11. AtCell(u, f, c) /\ size(u, c) = size(f, c)
  BY <1>7, <1>8, <1>9, PrevSizeAtCell
<1>12. u \in Heaps
  BY <1>11 DEF AtCell, SameBounds
<1>13. /\ Header(g, u, c, chunksize(u, c)) /\ prev_inuse(g, c)
       /\ is_valid(g, c) <=> is_valid(u, c)
  BY <1>8, <1>10, <1>12, SetPrevInuse
<1>14. AtCell(g, f, c) /\ (is_valid(g, c) <=> is_valid(f, c))
  <2>1. AtCell(g, u, c)
    BY <1>13, HeaderAtCell
  <2> QED
    BY <1>11, <1>13, <2>1, AtCellAgain, SameHeader
<1>15. Told(g, f, D, t, p)
  BY <1>5, <1>7, <1>8, <1>14, Tells
<1>16. chunksize(g, p) = chunksize(f, p) /\ is_valid(g, p) /\ (is_valid(g, t) <=> is_valid(f, t))
  BY <1>5, <1>15 DEF Told
<1>17. Tag(g, p)
  BY <1>8, <1>13, <1>16 DEF Tag
<1>18. Tagged(g, D, t, {})
  <2>1. {p} \ {p} = {}
    OBVIOUS
  <2> QED
    BY <1>5, <1>15, <1>17, <2>1 DEF Told
<1>19. Part(g, D, t, L, {})
  <2>1. Part(g, D, t, L, {p})
    BY <1>5, <1>15 DEF Told
  <2> QED
    BY <1>16, <2>1, LimboLess
<1>20. Keeps(g, D, e, C, {p, q})
  <2>1. Keeps(g, D, f, D, {p})
    BY <1>15 DEF Told
  <2>2. {p} \subseteq {p, q}
    OBVIOUS
  <2>3. Keeps(g, D, f, D, {p, q})
    BY <2>1, <2>2, KeepsMore
  <2> QED
    BY <1>5, <2>3, KeepsAgain
<1>21. Kept(g, e, p)
  <2>1. Shape(e, C, t)
    BY DEF Part
  <2>2. p \in Nat /\ chunksize(e, p) \in Int /\ chunksize(e, q) \in Int /\ chunksize(e, q) >= 8
    BY <2>1, Chunk
  <2>3. p + chunksize(e, p) < c
    BY <1>5, <1>8, <2>2
  <2>4. \A a \in Cells : a \in Nat /\ a \in Slots
    BY CellNumbers DEF Slots
  <2>5. \A a \in Cells : a <= p + chunksize(e, p) => a # c
    BY <1>8, <2>2, <2>3, <2>4
  <2>6. \A a \in Cells : a < p + chunksize(e, p) => a # c
    BY <1>8, <2>2, <2>3, <2>4
  <2>7. \A a \in Cells : a # c => size(g, a) = size(f, a) /\ prev_size(g, a) = prev_size(f, a)
    BY <1>14, <2>4 DEF AtCell
  <2> QED
    BY <1>5, <2>5, <2>6, <2>7 DEF Kept
<1>22. g.top = e.top /\ g.brk = e.brk
  BY <1>5, <1>15 DEF Told
<1> QED
  BY <1>5, <1>16, <1>18, <1>19, <1>20, <1>21, <1>22 DEF Absorbed

\* What realloc returns
Regot(r, h, C, t, p, n, k) ==
  \/ r.ptr = NULL /\ Refused(r.h, h, C, t)
  \/ r.ptr # NULL /\ \E q, D, s : r.ptr = q + 8 /\ Resized(r.h, h, C, p, q, n, k, D, s)

\* A block in front of the top grows into it (mm.c:410).
LEMMA GrowsIntoTop ==
  ASSUME NEW h, NEW C, NEW t, NEW L, Sound(h, C, t, L), NEW p \in C, is_valid(h, p), p + chunksize(h, p) = t,
         NEW n, NEW k \in Int, k % 8 = 0, k >= 8, chunksize(h, p) < k,
         NEW r, r = GrowIntoTop(split_top_chunk(h, k - chunksize(h, p)), p + 8)
  PROVE  Regot(r, h, C, t, p, n, k)
<1>1. /\ Part(h, C, t, L, {}) /\ Tagged(h, C, t, {}) /\ h.top = t /\ ~ is_valid(h, t)
      /\ Shape(h, C, t) /\ FreeListed(h, C, t, L, {}) /\ p # t /\ h.brk \in Int
  BY SoundIs DEF Part, Shape, Heaps
<1>2. p \in Nat /\ chunksize(h, p) \in Int /\ chunksize(h, p) % 8 = 0
  BY <1>1, Chunk
<1>3. PICK i : i = k - chunksize(h, p)
  OBVIOUS
<1>4. i \in Int /\ i % 8 = 0 /\ i >= 8
  BY <1>2, <1>3
<1>5. PICK cut : cut = split_top_chunk(h, i)
  OBVIOUS
<1>6. CutTop(cut, h, C, t, i)
  BY <1>1, <1>4, <1>5, TopCut
<1>7. r = GrowIntoTop(cut, p + 8)
  BY <1>3, <1>5
<1>8. CASE cut.p = NULL /\ cut.h = h
  <2>1. r.ptr = NULL /\ r.h = h
    BY <1>7, <1>8 DEF GrowIntoTop
  <2> QED
    BY <2>1, KeepsItself DEF Regot, Refused
<1>9. CASE cut.p # NULL /\ \E D, s : CutOff(cut.h, h, C, cut.p, i, D, s)
  <2>1. cut.p = t
    BY <1>6, <1>9 DEF CutTop
  <2>2. PICK e : e = cut.h
    OBVIOUS
  <2>3. PICK D, s : CutOff(e, h, C, t, i, D, s)
    BY <1>9, <2>1, <2>2
  <2>4. PICK g : g = Absorb(e, p, t)
    OBVIOUS
  <2>5. r.ptr = p + 8 /\ r.h = g /\ r.ptr # NULL
    <3>1. mem2chunk(p + 8) = p
      BY <1>2 DEF mem2chunk
    <3>2. r.ptr = p + 8 /\ r.h = g
      BY <1>7, <1>9, <2>1, <2>2, <2>4, <3>1 DEF GrowIntoTop
    <3> QED
      BY <1>2, <3>2 DEF NULL
  <2>6. /\ Tagged(e, D, s, {}) /\ t \in D /\ t # s
        /\ e.top = s /\ ~ is_valid(e, s) /\ chunksize(e, t) = i
        /\ Keeps(e, D, h, C, {})
        /\ e.brk >= h.brk /\ (Steps(h.brk) => Steps(e.brk))
    BY <2>3 DEF CutOff
  <2>7. PICK M : Part(e, D, s, M, {t})
    BY <2>3 DEF CutOff
  <2>8. p \in D /\ is_valid(e, p) /\ chunksize(e, p) = chunksize(h, p) /\ Kept(e, h, p) /\ p # s
    <3>1. p \in C \ {}
      OBVIOUS
    <3>2. p \in D /\ is_valid(e, p) /\ chunksize(e, p) = chunksize(h, p) /\ Kept(e, h, p)
      BY <2>6, <3>1 DEF Keeps
    <3> QED
      BY <2>6, <3>2
  <2>9. Part(e, D, s, M, {p, t})
    <3>1. p \notin Listed(M)
      BY <2>7, <2>8, ListedChunks DEF Part
    <3>2. Part(e, D, s, M, {t} \cup {p})
      BY <2>7, <3>1, LimboMore
    <3>3. {t} \cup {p} = {p, t}
      OBVIOUS
    <3> QED
      BY <3>2, <3>3
  <2>10. Tagged(e, D, s, {p, t})
    <3>1. {} \subseteq {p, t}
      OBVIOUS
    <3> QED
      BY <2>6, <3>1, TaggedMore
  <2>11. PICK B : B = D \ {t}
    OBVIOUS
  <2>12. t = p + chunksize(e, p)
    BY <2>8
  <2>13. /\ Part(g, B, s, M, {}) /\ Tagged(g, B, s, {}) /\ p \in B
         /\ g.top = e.top /\ g.brk = e.brk
         /\ Keeps(g, B, e, D, {p, t}) /\ Kept(g, e, p)
         /\ chunksize(g, p) = chunksize(e, p) + chunksize(e, t)
         /\ is_valid(g, p) /\ (is_valid(g, s) <=> is_valid(e, s))
    <3>1. Absorbed(g, e, D, s, M, p, t, B)
      BY <2>4, <2>6, <2>8, <2>9, <2>10, <2>11, <2>12, Absorbs
    <3> QED
      BY <3>1 DEF Absorbed
  <2>14. Sound(g, B, s, M)
    BY <2>6, <2>13, SoundIs
  <2>15. chunksize(g, p) = k
    BY <1>2, <1>3, <2>6, <2>8, <2>13
  <2>16. Keeps(g, B, h, C, {p, p})
    <3>1. {} \subseteq {p, t}
      OBVIOUS
    <3>2. Keeps(e, D, h, C, {p, t})
      BY <2>6, <3>1, KeepsMore
    <3>3. Keeps(g, B, h, C, {p, t})
      BY <2>13, <3>2, KeepsAgain
    <3>4. t \notin B
      BY <2>11
    <3>5. Keeps(g, B, h, C, {p, t} \ {t})
      BY <1>1, <3>3, <3>4, KeepsGone
    <3>6. {p, t} \ {t} = {p, p}
      BY <1>1
    <3> QED
      BY <3>5, <3>6
  <2>17. Kept(g, h, p)
    BY <2>8, <2>13 DEF Kept
  <2>18. \A m \in Nat : m % 4 = 0 /\ m + 4 <= chunksize(h, p) => Same(g, p, h, p, m)
    BY <1>1, <2>17, KeptSame
  <2>19. k <= chunksize(g, p) /\ chunksize(g, p) <= k + 16 /\ g.brk >= h.brk /\ (Steps(h.brk) => Steps(g.brk))
    BY <2>6, <2>13, <2>15
  <2>20. p # s
    BY <2>8
  <2>21. Resized(g, h, C, p, p, n, k, B, s)
    BY <2>13, <2>14, <2>16, <2>18, <2>19, <2>20 DEF Resized
  <2> QED
    BY <2>5, <2>21 DEF Regot
<1> QED
  BY <1>6, <1>8, <1>9 DEF CutFrom, CutTop

\* The block is copied to a new one, and freed (mm.c:440).
LEMMA Moves ==
  ASSUME NEW h, NEW C, NEW t, NEW L, Sound(h, C, t, L), NEW p \in C, is_valid(h, p), chunksize(h, p) >= 16,
         NEW n \in Nat, n % 4 = 0, NEW k \in Int, k = size2chunksize(n), k % 8 = 0, k >= 8, n + 4 <= k,
         NEW r, r = Move(mm_malloc(h, n), p + 8, n)
  PROVE  Regot(r, h, C, t, p, n, k)
<1>1. PICK new : new = mm_malloc(h, n)
  OBVIOUS
<1>2. Got(new, h, C, t, k) /\ r = Move(new, p + 8, n)
  BY <1>1, Allocates
<1>3. CASE new.ptr = NULL /\ Refused(new.h, h, C, t)
  <2>1. r = new
    BY <1>2, <1>3 DEF Move
  <2> QED
    BY <1>3, <2>1 DEF Regot
<1>4. CASE new.ptr # NULL /\ \E q, D, s : new.ptr = q + 8 /\ Taken(new.h, h, C, q, k, D, s)
  <2>1. PICK e : e = new.h
    OBVIOUS
  <2>2. PICK q, D, s : new.ptr = q + 8 /\ Taken(e, h, C, q, k, D, s)
    BY <1>4, <2>1
  <2>3. PICK f : f = Copy(e, p + 8, q + 8, n)
    OBVIOUS
  <2>4. PICK g : g = mm_free(f, p + 8)
    OBVIOUS
  <2>5. r.h = g /\ r.ptr = q + 8 /\ r.ptr # NULL
    <3>1. new.h = e /\ new.ptr = q + 8 /\ new = [h |-> new.h, ptr |-> new.ptr]
      BY <1>1, <2>1, <2>2 DEF mm_malloc, Allocated
    <3>2. r = [new EXCEPT !.h = g]
      BY <1>2, <1>4, <2>1, <2>2, <2>3, <2>4 DEF Move
    <3>3. r.h = g /\ r.ptr = new.ptr
      BY <3>1, <3>2
    <3> QED
      BY <1>4, <2>2, <3>3
  <2>6. /\ Keeps(e, D, h, C, {q})
        /\ q \in D /\ q # s /\ is_valid(e, q) /\ (q \in C => ~ is_valid(h, q))
        /\ k <= chunksize(e, q) /\ chunksize(e, q) <= k + 16
        /\ e.brk >= h.brk /\ (Steps(h.brk) => Steps(e.brk))
    BY <2>2 DEF Taken
  <2>7. PICK M : Sound(e, D, s, M)
    BY <2>2 DEF Taken
  <2>8. Shape(e, D, s) /\ ~ is_valid(e, s) /\ Shape(h, C, t)
    BY <2>7 DEF Sound
  <2>9. p # q /\ p \in D /\ is_valid(e, p) /\ chunksize(e, p) = chunksize(h, p) /\ Kept(e, h, p) /\ p # s
    <3>1. p # q
      BY <2>6
    <3>2. p \in C \ {q}
      BY <3>1
    <3>3. p \in D /\ is_valid(e, p) /\ chunksize(e, p) = chunksize(h, p) /\ Kept(e, h, p)
      BY <2>6, <3>2 DEF Keeps
    <3> QED
      BY <2>8, <3>1, <3>3
  <2>10. chunksize(e, q) \in Int /\ n + 4 <= chunksize(e, q)
    <3>1. chunksize(e, q) \in Int
      BY <2>6, <2>8, Chunk
    <3> QED
      BY <2>6, <3>1
  <2>11. Copied(f, e, q, p, n)
    BY <2>3, <2>6, <2>8, <2>9, <2>10, Copies
  <2>12. /\ Sound(f, D, s, M) /\ Keeps(f, D, e, D, {q}) /\ f.brk = e.brk
         /\ is_valid(f, q) /\ chunksize(f, q) = chunksize(e, q)
    BY <2>6, <2>7, <2>11, Writes DEF Copied, WrittenOnly
  <2>13. is_valid(f, p) /\ chunksize(f, p) >= 16
    <3>1. p \in D \ {q}
      BY <2>9
    <3>2. is_valid(f, p) /\ chunksize(f, p) = chunksize(e, p)
      BY <2>9, <2>12, <3>1 DEF Keeps
    <3> QED
      BY <2>9, <3>2
  <2>14. PICK B, z : Released(g, f, D, p, B, z)
    BY <2>4, <2>9, <2>12, <2>13, Frees
  <2>15. /\ Keeps(g, B, f, D, {p}) /\ (p \in B => ~ is_valid(g, p)) /\ g.brk = f.brk
    BY <2>14 DEF Released
  <2>16. PICK N : Sound(g, B, z, N)
    BY <2>14 DEF Released
  <2>17. q \in B /\ is_valid(g, q) /\ chunksize(g, q) = chunksize(f, q) /\ Kept(g, f, q) /\ q # z
    <3>1. q \in D \ {p}
      BY <2>6, <2>9
    <3>2. q \in B /\ is_valid(g, q) /\ chunksize(g, q) = chunksize(f, q) /\ Kept(g, f, q)
      BY <2>12, <2>15, <3>1 DEF Keeps
    <3>3. ~ is_valid(g, z)
      BY <2>16 DEF Sound
    <3> QED
      BY <3>2, <3>3
  <2>18. Keeps(g, B, h, C, {p, q})
    <3>1. {p} \subseteq {p, q} /\ {q} \subseteq {p, q}
      OBVIOUS
    <3>2. Keeps(e, D, h, C, {p, q}) /\ Keeps(f, D, e, D, {p, q}) /\ Keeps(g, B, f, D, {p, q})
      BY <2>6, <2>12, <2>15, <3>1, KeepsMore
    <3>3. Keeps(f, D, h, C, {p, q})
      BY <3>2, KeepsAgain
    <3> QED
      BY <3>2, <3>3, KeepsAgain
  <2>19. ASSUME NEW m \in Nat, m % 4 = 0, m <= n, m + 4 <= chunksize(h, p)
         PROVE  Same(g, q, h, p, m)
    <3>1. m + 4 <= chunksize(f, q) /\ m + 4 <= chunksize(e, p)
      BY <2>9, <2>10, <2>12, <2>19
    <3>2. Shape(f, D, s)
      BY <2>12 DEF Sound
    <3>3. \A w \in User(q, m) : g.m[w] = f.m[w]
      BY <2>6, <2>17, <2>19, <3>1, <3>2, KeptWords
    <3>4. \A w \in User(q, m) : \E v \in User(p, m) : f.m[w] = e.m[v]
      BY <2>11, <2>19, <3>1 DEF Copied, Same
    <3>5. p # t
      BY DEF Sound
    <3>6. \A v \in User(p, m) : e.m[v] = h.m[v]
      BY <2>8, <2>9, <2>19, <3>5, KeptWords
    <3> QED
      BY <3>3, <3>4, <3>6 DEF Same
  <2>20. k <= chunksize(g, q) /\ chunksize(g, q) <= k + 16 /\ g.brk >= h.brk /\ (Steps(h.brk) => Steps(g.brk))
    BY <2>6, <2>12, <2>15, <2>17
  <2>21. Resized(g, h, C, p, q, n, k, B, z)
    BY <2>6, <2>15, <2>16, <2>17, <2>18, <2>19, <2>20 DEF Resized
  <2> QED
    BY <2>5, <2>21 DEF Regot
<1> QED
  BY <1>2, <1>3, <1>4 DEF Got

\* mm_realloc (mm.c:514), but for a block that grows into a free chunk after it.
LEMMA Reallocates ==
  ASSUME NEW h, NEW C, NEW t, NEW L, Sound(h, C, t, L), NEW p \in C, is_valid(h, p), chunksize(h, p) >= 16,
         NEW n \in Nat, n % 4 = 0, NEW k \in Int, k = size2chunksize(n), k % 8 = 0, k >= 8, n + 4 <= k,
         ~ GrowsIntoFree(h, p + 8, n), NEW r, r = mm_realloc(h, p + 8, n)
  PROVE  Regot(r, h, C, t, p, n, k)
<1>1. /\ Shape(h, C, t) /\ h.top = t /\ p \in Nat /\ mem2chunk(p + 8) = p
      /\ chunksize(h, p) \in Int
  <2>1. Shape(h, C, t) /\ h.top = t
    BY DEF Sound
  <2>2. p \in Nat /\ chunksize(h, p) \in Int
    BY <2>1, Chunk
  <2> QED
    BY <2>1, <2>2 DEF mem2chunk
<1>2. CASE chunksize(h, p) >= k
  <2>1. PICK g : g = split_and_append(h, p, k)
    OBVIOUS
  <2>2. r.h = g /\ r.ptr = p + 8 /\ r.ptr # NULL
    <3>1. r.h = g /\ r.ptr = p + 8
      BY <1>1, <1>2, <2>1 DEF mm_realloc
    <3> QED
      BY <1>1, <3>1 DEF NULL
  <2>3. PICK D : Resized(g, h, C, p, p, n, k, D, t)
    BY <1>2, <2>1, Shrinks
  <2> QED
    BY <2>2, <2>3 DEF Regot
<1>3. CASE ~ chunksize(h, p) >= k
  <2>1. r = realloc_chunk(h, p + 8, n)
    BY <1>1, <1>3 DEF mm_realloc
  <2>2. PICK next : next = next_chunk(h, p)
    OBVIOUS
  <2>3. next = p + chunksize(h, p)
    BY <2>2 DEF next_chunk
  <2>4. CASE next = t
    <3>1. r = GrowIntoTop(split_top_chunk(h, k - chunksize(h, p)), p + 8)
      BY <1>1, <2>1, <2>2, <2>4 DEF realloc_chunk
    <3>2. p + chunksize(h, p) = t /\ chunksize(h, p) < k
      BY <1>1, <1>3, <2>3, <2>4
    <3> QED
      BY <3>1, <3>2, GrowsIntoTop
  <2>5. CASE next # t
    <3>1. r = Move(mm_malloc(h, n), p + 8, n)
      BY <1>1, <2>1, <2>2, <2>5 DEF realloc_chunk
    <3> QED
      BY <3>1, Moves
  <2> QED
    BY <2>4, <2>5
<1> QED
  BY <1>2, <1>3

-----------------------------------------------------------------------------
(* The user's blocks. *)

\* A chunk is large enough for what was asked for, and not much larger
LEMMA Asked ==
  ASSUME NEW n \in Requests, NEW k, k = size2chunksize(n)
  PROVE  /\ n \in Nat /\ n % 4 = 0 /\ n >= 8
         /\ k \in Int /\ k % 8 = 0 /\ k >= 16 /\ n + 4 <= k
<1>1. n \in Nat /\ n % 4 = 0 /\ n >= 8
  BY Constants
<1>2. PICK x : x = n + 3
  OBVIOUS
<1>3. k = (x \div 8) * 8 + 8
  <2>1. n - 4 + 8 - 1 = x
    BY <1>1, <1>2
  <2> QED
    BY <2>1 DEF size2chunksize, Align
<1>4. x \in Int /\ x >= 11
  BY <1>1, <1>2
<1>5. PICK y : y = x \div 8
  OBVIOUS
<1>6. y \in Int /\ 8 * y <= x /\ x < 8 * y + 8
  BY <1>4, <1>5
<1>7. k = 8 * y + 8
  BY <1>3, <1>5, <1>6
<1> QED
  BY <1>1, <1>2, <1>4, <1>6, <1>7

\* A larger request gets no smaller chunk.
LEMMA AskedMore ==
  ASSUME NEW m \in Requests, NEW n \in Requests, m < n
  PROVE  size2chunksize(m) <= size2chunksize(n)
<1>1. m \in Nat /\ n \in Nat
  BY Constants
<1>2. PICK x : x = m + 3
  OBVIOUS
<1>3. PICK y : y = n + 3
  OBVIOUS
<1>4. PICK u : u = x \div 8
  OBVIOUS
<1>5. PICK v : v = y \div 8
  OBVIOUS
<1>6. x \in Int /\ y \in Int /\ x < y
  BY <1>1, <1>2, <1>3
<1>7. u \in Int /\ v \in Int /\ u <= v
  BY <1>4, <1>5, <1>6
<1>8. size2chunksize(m) = u * 8 + 8
  <2>1. m - 4 + 8 - 1 = x
    BY <1>1, <1>2
  <2> QED
    BY <1>4, <2>1 DEF size2chunksize, Align
<1>9. size2chunksize(n) = v * 8 + 8
  <2>1. n - 4 + 8 - 1 = y
    BY <1>1, <1>3
  <2> QED
    BY <1>5, <2>1 DEF size2chunksize, Align
<1> QED
  BY <1>7, <1>8, <1>9

\* The block b of user i is the chunk p
At(h, C, b, i, p) ==
  /\ p \in C /\ is_valid(h, p)
  /\ b.size \in Requests /\ b = [lo |-> p + 8, size |-> b.size]
  /\ size2chunksize(b.size) <= chunksize(h, p) /\ chunksize(h, p) <= size2chunksize(b.size) + 16
  /\ \A w \in Payload(b) : h.m[w] = Fill(i)

\* Every block is a chunk in use, and every chunk in use is one block
Placed(h, C, B) ==
  /\ B = [i \in Ids |-> B[i]]
  /\ \A i \in Ids : B[i] # none => \E p : At(h, C, B[i], i, p)
  /\ \A i, j \in Ids : B[i] # none /\ B[j] # none /\ B[i].lo = B[j].lo => i = j
  /\ \A p \in C : is_valid(h, p) => \E i \in Ids : B[i] # none /\ B[i].lo = p + 8

\* Among the chunks of E, only that of block i was in use, and only that of b is now
Instead(g, D, h, C, E, old, b) ==
  /\ E \subseteq Int
  /\ old # none => \E q \in E : old.lo = q + 8
  /\ b # none => \E q \in E : b.lo = q + 8
  /\ \A q \in E : /\ q \in C /\ is_valid(h, q) => old # none /\ old.lo = q + 8
                  /\ q \in D /\ is_valid(g, q) => b # none /\ b.lo = q + 8

\* A block elsewhere is where it was.
LEMMA Stays ==
  ASSUME NEW h, NEW C, NEW t, Shape(h, C, t), ~ is_valid(h, t),
         NEW g, NEW D, NEW E, Keeps(g, D, h, C, E), NEW i, NEW b, NEW p, At(h, C, b, i, p), p \notin E
  PROVE  At(g, D, b, i, p)
<1>1. p \in C \ E /\ is_valid(h, p) /\ b.size \in Requests /\ b = [lo |-> p + 8, size |-> b.size] /\ p # t
  BY DEF At
<1>2. p \in D /\ is_valid(g, p) /\ chunksize(g, p) = chunksize(h, p) /\ Kept(g, h, p)
  BY <1>1 DEF Keeps
<1>3. PICK n : n = b.size
  OBVIOUS
<1>4. PICK k : k = size2chunksize(n)
  OBVIOUS
<1>5. n \in Nat /\ n % 4 = 0 /\ k \in Int /\ n + 4 <= k
  BY <1>1, <1>3, <1>4, Asked
<1>6. chunksize(h, p) \in Int
  BY <1>1, Chunk
<1>7. k <= chunksize(h, p)
  BY <1>3, <1>4 DEF At
<1>8. n + 4 <= chunksize(h, p)
  BY <1>5, <1>6, <1>7
<1>9. \A w \in User(p, n) : g.m[w] = h.m[w]
  BY <1>1, <1>2, <1>5, <1>8, KeptWords
<1>10. Payload(b) = User(p, n)
  BY <1>1, <1>3 DEF User
<1> QED
  BY <1>1, <1>2, <1>9, <1>10 DEF At

\* The blocks are placed again when those of E are replaced by b.
LEMMA PlacedAgain ==
  ASSUME NEW h, NEW C, NEW t, Shape(h, C, t), ~ is_valid(h, t), NEW B, Placed(h, C, B), NEW i \in Ids,
         NEW g, NEW D, NEW E, Keeps(g, D, h, C, E), NEW b, Instead(g, D, h, C, E, B[i], b),
         b # none => \E p : At(g, D, b, i, p),
         NEW A, A = [B EXCEPT ![i] = b]
  PROVE  Placed(g, D, A)
<1>1. /\ A = [j \in Ids |-> A[j]] /\ A[i] = b
      /\ \A j \in Ids : j # i => A[j] = B[j]
  <2>1. B = [j \in Ids |-> B[j]]
    BY DEF Placed
  <2> QED
    BY <2>1
<1>2. ASSUME NEW j \in Ids, j # i, B[j] # none
      PROVE  \E p : At(g, D, B[j], j, p) /\ B[j].lo = p + 8 /\ p \notin E /\ p \in Int
  <2>1. PICK p : At(h, C, B[j], j, p)
    BY <1>2 DEF Placed
  <2>2. p \in C /\ is_valid(h, p) /\ B[j].lo = p + 8 /\ p \in Nat
    <3>1. p \in C /\ is_valid(h, p) /\ B[j] = [lo |-> p + 8, size |-> B[j].size]
      BY <2>1 DEF At
    <3>2. B[j].lo = p + 8
      BY <3>1
    <3> QED
      BY <3>1, <3>2, Chunk
  <2>3. p \notin E
    BY <1>2, <2>2 DEF Instead, Placed
  <2>4. At(g, D, B[j], j, p)
    BY <2>1, <2>3, Stays
  <2> QED
    BY <2>2, <2>3, <2>4
<1>3. \A j \in Ids : A[j] # none => \E p : At(g, D, A[j], j, p)
  BY <1>1, <1>2
<1>4. ASSUME NEW j \in Ids, j # i, B[j] # none, b # none
      PROVE  B[j].lo # b.lo
  <2>1. PICK p \in Int : B[j].lo = p + 8 /\ p \notin E
    BY <1>2, <1>4
  <2>2. PICK q \in E : b.lo = q + 8 /\ q \in Int
    BY <1>4 DEF Instead
  <2> QED
    BY <2>1, <2>2
<1>5. \A j, l \in Ids : A[j] # none /\ A[l] # none /\ A[j].lo = A[l].lo => j = l
  <2>1. ASSUME NEW j \in Ids, NEW l \in Ids, A[j] # none, A[l] # none, A[j].lo = A[l].lo, j # l
        PROVE  FALSE
    <3>1. CASE j = i
      BY <1>1, <1>4, <2>1, <3>1
    <3>2. CASE l = i
      BY <1>1, <1>4, <2>1, <3>2
    <3>3. CASE j # i /\ l # i
      BY <1>1, <2>1, <3>3 DEF Placed
    <3> QED
      BY <3>1, <3>2, <3>3
  <2> QED
    BY <2>1
<1>6. ASSUME NEW p \in D, is_valid(g, p)
      PROVE  \E j \in Ids : A[j] # none /\ A[j].lo = p + 8
  <2>1. CASE p \in E
    <3>1. b # none /\ b.lo = p + 8
      BY <1>6, <2>1 DEF Instead
    <3> QED
      BY <1>1, <3>1
  <2>2. CASE p \notin E
    <3>1. p \in C /\ is_valid(h, p)
      BY <1>6, <2>2 DEF Keeps
    <3>2. PICK j \in Ids : B[j] # none /\ B[j].lo = p + 8
      BY <3>1 DEF Placed
    <3>3. j # i
      <4>1. SUFFICES ASSUME j = i PROVE FALSE
        OBVIOUS
      <4>2. PICK q \in E : p + 8 = q + 8 /\ q \in Int
        BY <3>2, <4>1 DEF Instead
      <4>3. p \in Nat
        BY <3>1, Chunk
      <4> QED
        BY <2>2, <4>2, <4>3
    <3> QED
      BY <1>1, <3>2, <3>3
  <2> QED
    BY <2>1, <2>2
<1> QED
  BY <1>1, <1>3, <1>5, <1>6 DEF Placed

\* The heap h is sound, and its user holds the blocks B
Holds(h, B) == \E C, L : Sound(h, C, h.top, L) /\ Placed(h, C, B) /\ Steps(h.brk)

\* In e there is a chunk q for block i of n bytes, instead of those of E
Fresh(e, D, s, M, h, C, t, L, B, i, E, q, n) ==
  /\ Sound(h, C, t, L) /\ Placed(h, C, B) /\ i \in Ids
  /\ Sound(e, D, s, M) /\ Keeps(e, D, h, C, E) /\ q \in D /\ q # s /\ is_valid(e, q)
  /\ n \in Requests /\ size2chunksize(n) <= chunksize(e, q) /\ chunksize(e, q) <= size2chunksize(n) + 16
  /\ Steps(e.brk) /\ Instead(e, D, h, C, E, B[i], [lo |-> q + 8, size |-> n])

Updated(A, B, i, b) == A = [B EXCEPT ![i] = b]

\* The user i writes to the chunk that it got
LEMMA Gives ==
  ASSUME NEW h, NEW C, NEW t, NEW L, NEW B, NEW i, NEW e, NEW D, NEW s, NEW M, NEW E, NEW q, NEW n,
         Fresh(e, D, s, M, h, C, t, L, B, i, E, q, n),
         NEW b, b = [lo |-> q + 8, size |-> n],
         NEW g, Written(g, e, i, b), NEW A, Updated(A, B, i, b)
  PROVE  Holds(g, A)
<1>0. /\ Sound(h, C, t, L) /\ Placed(h, C, B) /\ i \in Ids
      /\ Sound(e, D, s, M) /\ Keeps(e, D, h, C, E) /\ q \in D /\ q # s /\ is_valid(e, q)
      /\ n \in Requests /\ size2chunksize(n) <= chunksize(e, q) /\ chunksize(e, q) <= size2chunksize(n) + 16
      /\ Steps(e.brk) /\ Instead(e, D, h, C, E, B[i], b)
  BY DEF Fresh
<1>1. /\ n \in Nat /\ n % 4 = 0 /\ n + 4 <= chunksize(e, q) /\ Shape(e, D, s) /\ q \in Nat
  <2>1. PICK k : k = size2chunksize(n)
    OBVIOUS
  <2>2. n \in Nat /\ n % 4 = 0 /\ k \in Int /\ n + 4 <= k
    BY <1>0, <2>1, Asked
  <2>3. Shape(e, D, s)
    BY <1>0 DEF Sound
  <2>4. chunksize(e, q) \in Int /\ q \in Nat
    BY <1>0, <2>3, Chunk
  <2> QED
    BY <1>0, <2>1, <2>2, <2>3, <2>4
<1>2. Wrote(g, e, q) /\ \A w \in Payload(b) : g.m[w] = Fill(i)
  <2>1. FilledAt(g, e, q, b, i)
    BY <1>0, <1>1, Fills
  <2> QED
    BY <2>1 DEF FilledAt
<1>3. /\ Sound(g, D, s, M) /\ Keeps(g, D, e, D, {q}) /\ g.brk = e.brk
      /\ is_valid(g, q) /\ chunksize(g, q) = chunksize(e, q)
  <2>1. Wrote(g, e, q)
    BY <1>2
  <2>2. WrittenOnly(g, e, D, s, M, q)
    BY <1>0, <2>1, Writes
  <2> QED
    BY <2>2 DEF WrittenOnly
<1>4. b # none /\ b.lo = q + 8 /\ b.size = n
  BY <1>1 DEF none, NULL
<1>5. q \in E
  BY <1>0, <1>1, <1>4 DEF Instead
<1>6. Keeps(g, D, h, C, E)
  <2>1. {q} \subseteq E
    BY <1>5
  <2>2. Keeps(g, D, e, D, E)
    BY <1>3, <2>1, KeepsMore
  <2> QED
    BY <1>0, <2>2, KeepsAgain
<1>7. Instead(g, D, h, C, E, B[i], b)
  <2>1. ASSUME NEW x \in E, x \in D, is_valid(g, x)
        PROVE  b # none /\ b.lo = x + 8
    <3>1. CASE x = q
      BY <1>4, <3>1
    <3>2. CASE x # q
      <4>1. x \in D \ {q}
        BY <2>1, <3>2
      <4>2. is_valid(e, x)
        BY <1>3, <2>1, <4>1 DEF Keeps
      <4> QED
        BY <1>0, <2>1, <4>2 DEF Instead
    <3> QED
      BY <3>1, <3>2
  <2> QED
    BY <1>0, <2>1 DEF Instead
<1>8. At(g, D, b, i, q)
  <2>1. b = [lo |-> q + 8, size |-> b.size]
    BY <1>4
  <2> QED
    BY <1>0, <1>2, <1>3, <1>4, <2>1 DEF At
<1>9. Shape(h, C, t) /\ ~ is_valid(h, t)
  BY <1>0 DEF Sound
<1>10. Placed(g, D, A)
  BY <1>0, <1>6, <1>7, <1>8, <1>9, PlacedAgain DEF Updated
<1>11. g.top = s
  BY <1>3 DEF Sound
<1> QED
  BY <1>0, <1>3, <1>10, <1>11 DEF Holds

\* The heap after a call r that gave block i n bytes
Given(r, i, n) ==
  [m |-> Filled(r.h.m, i, [lo |-> r.ptr, size |-> n]), top |-> r.h.top, brk |-> r.h.brk]

\* A call without memory leaves the blocks and the end of the heap alone
Served(r, h, B, i, n) ==
  /\ r.ptr = NULL => Holds(r.h, B) /\ r.h.brk = h.brk
  /\ r.ptr # NULL => /\ Holds(Given(r, i, n), [B EXCEPT ![i] = [lo |-> r.ptr, size |-> n]])
                     /\ r.h.brk >= h.brk

\* A call without memory leaves the blocks where they are.
LEMMA RefusedHolds ==
  ASSUME NEW h, NEW C, NEW t, NEW L, Sound(h, C, t, L), NEW B, Placed(h, C, B), Steps(h.brk), NEW i \in Ids,
         NEW g, Refused(g, h, C, t)
  PROVE  Holds(g, B) /\ g.brk = h.brk
<1>1. PICK M : Sound(g, C, t, M)
  BY DEF Refused
<1>2. Keeps(g, C, h, C, {}) /\ g.brk = h.brk
  BY DEF Refused
<1>3. Shape(h, C, t) /\ ~ is_valid(h, t) /\ g.top = t
  BY <1>1 DEF Sound
<1>4. ASSUME NEW j \in Ids, B[j] # none
      PROVE  \E p : At(g, C, B[j], j, p)
  <2>1. PICK p : At(h, C, B[j], j, p)
    BY <1>4 DEF Placed
  <2>2. p \notin {}
    OBVIOUS
  <2> QED
    BY <1>2, <1>3, <2>1, <2>2, Stays
<1>5. \A p \in C : is_valid(g, p) => is_valid(h, p)
  BY <1>2 DEF Keeps
<1>6. Placed(g, C, B)
  BY <1>4, <1>5 DEF Placed
<1> QED
  BY <1>1, <1>2, <1>3, <1>6 DEF Holds

\* mm_malloc serves a trace: the block is new, the others stay.
LEMMA MallocServed ==
  ASSUME NEW h, NEW B, Holds(h, B), NEW i \in Ids, B[i] = none, NEW n \in Requests,
         NEW r, r = mm_malloc(h, n)
  PROVE  Served(r, h, B, i, n)
<1>1. PICK t : t = h.top
  OBVIOUS
<1>2. PICK C, L : Sound(h, C, t, L) /\ Placed(h, C, B) /\ Steps(h.brk)
  BY <1>1 DEF Holds
<1>3. PICK k : k = size2chunksize(n)
  OBVIOUS
<1>4. n \in Nat /\ k \in Int /\ k % 8 = 0 /\ k >= 8
  BY <1>3, Asked
<1>5. Got(r, h, C, t, k)
  BY <1>2, <1>3, <1>4, Allocates
<1>6. CASE r.ptr = NULL /\ Refused(r.h, h, C, t)
  <2>1. PICK g : g = r.h
    OBVIOUS
  <2>2. Holds(g, B) /\ g.brk = h.brk
    BY <1>2, <1>6, <2>1, RefusedHolds
  <2> QED
    BY <1>6, <2>1, <2>2 DEF Served
<1>7. CASE r.ptr # NULL /\ \E q, D, s : r.ptr = q + 8 /\ Taken(r.h, h, C, q, k, D, s)
  <2>1. PICK e : e = r.h
    OBVIOUS
  <2>2. PICK q, D, s : r.ptr = q + 8 /\ Taken(e, h, C, q, k, D, s)
    BY <1>7, <2>1
  <2>3. /\ Keeps(e, D, h, C, {q})
        /\ q \in D /\ q # s /\ is_valid(e, q) /\ (q \in C => ~ is_valid(h, q))
        /\ k <= chunksize(e, q) /\ chunksize(e, q) <= k + 16
        /\ e.brk >= h.brk /\ Steps(e.brk)
    BY <1>2, <2>2 DEF Taken
  <2>4. PICK M : Sound(e, D, s, M)
    BY <2>2 DEF Taken
  <2>5. PICK b : b = [lo |-> q + 8, size |-> n]
    OBVIOUS
  <2>6. Instead(e, D, h, C, {q}, B[i], b)
    <3>1. Shape(e, D, s)
      BY <2>4 DEF Sound
    <3>2. q \in Nat
      BY <2>3, <3>1, Chunk
    <3>3. b # none /\ b.lo = q + 8
      BY <2>5, <3>2 DEF none, NULL
    <3> QED
      BY <2>3, <3>2, <3>3 DEF Instead
  <2>7. PICK g : g = Given(r, i, n)
    OBVIOUS
  <2>8. PICK A : A = [B EXCEPT ![i] = b]
    OBVIOUS
  <2>9. g = [m |-> Filled(e.m, i, b), top |-> e.top, brk |-> e.brk]
    BY <2>1, <2>2, <2>5, <2>7 DEF Given
  <2>10. Holds(g, A)
    <3>1. PICK E : E = {q}
      OBVIOUS
    <3>2. Keeps(e, D, h, C, E) /\ Instead(e, D, h, C, E, B[i], b)
      BY <2>3, <2>6, <3>1
    <3>3. Fresh(e, D, s, M, h, C, t, L, B, i, E, q, n)
      BY <1>2, <1>3, <2>3, <2>4, <2>5, <3>2 DEF Fresh
    <3>4. Written(g, e, i, b) /\ Updated(A, B, i, b)
      BY <2>8, <2>9 DEF Written, Updated
    <3> QED
      BY <2>5, <3>3, <3>4, Gives
  <2>11. A = [B EXCEPT ![i] = [lo |-> r.ptr, size |-> n]]
    BY <2>2, <2>5, <2>8
  <2> QED
    BY <1>7, <2>1, <2>3, <2>7, <2>10, <2>11 DEF Served
<1> QED
  BY <1>5, <1>6, <1>7 DEF Got

\* The block b of user i is the chunk p, and the chunk is large enough
ChunkAt(h, C, t, b, i, p) ==
  /\ At(h, C, b, i, p) /\ p \in C /\ is_valid(h, p) /\ p # t /\ b.lo = p + 8
  /\ chunksize(h, p) >= 16 /\ chunksize(h, p) >= b.size + 4 /\ p \in Nat
  /\ b.size \in Requests /\ b = [lo |-> p + 8, size |-> b.size]

\* A block is a chunk in use.
LEMMA ChunkOf ==
  ASSUME NEW h, NEW C, NEW t, NEW L, Sound(h, C, t, L), NEW B, Placed(h, C, B), NEW i \in Ids, B[i] # none
  PROVE  \E p : ChunkAt(h, C, t, B[i], i, p)
<1>1. PICK p : At(h, C, B[i], i, p)
  BY DEF Placed
<1>2. p \in C /\ is_valid(h, p) /\ B[i].size \in Requests /\ B[i] = [lo |-> p + 8, size |-> B[i].size]
  BY <1>1 DEF At
<1>3. B[i].lo = p + 8
  BY <1>2
<1>4. Shape(h, C, t) /\ p # t
  BY <1>2 DEF Sound
<1>5. PICK n : n = B[i].size
  OBVIOUS
<1>6. PICK k : k = size2chunksize(n)
  OBVIOUS
<1>7. k \in Int /\ k >= 16 /\ n + 4 <= k /\ n \in Nat
  BY <1>2, <1>5, <1>6, Asked
<1>8. k <= chunksize(h, p)
  BY <1>1, <1>5, <1>6 DEF At
<1>9. chunksize(h, p) \in Int /\ p \in Nat
  BY <1>2, <1>4, Chunk
<1>10. chunksize(h, p) >= 16 /\ chunksize(h, p) >= n + 4
  BY <1>7, <1>8, <1>9
<1> QED
  BY <1>1, <1>2, <1>3, <1>4, <1>5, <1>9, <1>10 DEF ChunkAt

HoldsAt(g, B, end) == Holds(g, B) /\ g.brk = end

\* mm_free serves a trace: the block is gone, the others stay.
LEMMA FreeServed ==
  ASSUME NEW h, NEW B, Holds(h, B), NEW i \in Ids, B[i] # none, NEW g, g = mm_free(h, B[i].lo),
         NEW A, Updated(A, B, i, none)
  PROVE  HoldsAt(g, A, h.brk)
<1>1. PICK t : t = h.top
  OBVIOUS
<1>2. PICK C, L : Sound(h, C, t, L) /\ Placed(h, C, B) /\ Steps(h.brk)
  BY <1>1 DEF Holds
<1>3. PICK p \in C : is_valid(h, p) /\ B[i].lo = p + 8 /\ chunksize(h, p) >= 16 /\ p \in Nat
  <2>1. PICK p : ChunkAt(h, C, t, B[i], i, p)
    BY <1>2, ChunkOf
  <2> QED
    BY <2>1 DEF ChunkAt
<1>4. g = mm_free(h, p + 8)
  BY <1>3
<1>5. PICK D, s : Released(g, h, C, p, D, s)
  BY <1>2, <1>3, <1>4, Frees
<1>6. Keeps(g, D, h, C, {p}) /\ (p \in D => ~ is_valid(g, p)) /\ g.brk = h.brk
  BY <1>5 DEF Released
<1>7. PICK M : Sound(g, D, s, M)
  BY <1>5 DEF Released
<1>8. Instead(g, D, h, C, {p}, B[i], none)
  BY <1>3, <1>6 DEF Instead
<1>9. Shape(h, C, t) /\ ~ is_valid(h, t)
  BY <1>2 DEF Sound
<1>10. Placed(g, D, A)
  BY <1>2, <1>6, <1>8, <1>9, PlacedAgain DEF Updated
<1>11. g.top = s
  BY <1>7 DEF Sound
<1> QED
  BY <1>2, <1>6, <1>7, <1>10, <1>11 DEF Holds, HoldsAt

\* mm_realloc serves a trace, and data is copied before it is freed.
LEMMA ReallocServed ==
  ASSUME NEW h, NEW B, Holds(h, B), NEW i \in Ids, B[i] # none, NEW n \in Requests,
         ~ GrowsIntoFree(h, B[i].lo, n), NEW r, r = mm_realloc(h, B[i].lo, n)
  PROVE  /\ Served(r, h, B, i, n)
         /\ r.ptr # NULL /\ n > B[i].size => \A w \in Compared(r.ptr, B[i], n) : r.h.m[w] = Fill(i)
<1>1. PICK t : t = h.top
  OBVIOUS
<1>2. PICK C, L : Sound(h, C, t, L) /\ Placed(h, C, B) /\ Steps(h.brk)
  BY <1>1 DEF Holds
<1>3. PICK p \in C : /\ At(h, C, B[i], i, p) /\ is_valid(h, p) /\ B[i].lo = p + 8 /\ chunksize(h, p) >= 16
                     /\ chunksize(h, p) >= B[i].size + 4 /\ p \in Nat
                     /\ B[i].size \in Requests /\ B[i] = [lo |-> p + 8, size |-> B[i].size]
  <2>1. PICK p : ChunkAt(h, C, t, B[i], i, p)
    BY <1>2, ChunkOf
  <2> QED
    BY <2>1 DEF ChunkAt
<1>4. PICK k : k = size2chunksize(n)
  OBVIOUS
<1>5. n \in Nat /\ n % 4 = 0 /\ k \in Int /\ k % 8 = 0 /\ k >= 8 /\ n + 4 <= k
  BY <1>4, Asked
<1>6. r = mm_realloc(h, p + 8, n) /\ ~ GrowsIntoFree(h, p + 8, n)
  BY <1>3
<1>7. Regot(r, h, C, t, p, n, k)
  BY <1>2, <1>3, <1>4, <1>5, <1>6, Reallocates
<1>8. CASE r.ptr = NULL /\ Refused(r.h, h, C, t)
  <2>1. PICK g : g = r.h
    OBVIOUS
  <2>2. Holds(g, B) /\ g.brk = h.brk
    BY <1>2, <1>8, <2>1, RefusedHolds
  <2> QED
    BY <1>8, <2>1, <2>2 DEF Served
<1>9. CASE r.ptr # NULL /\ \E q, D, s : r.ptr = q + 8 /\ Resized(r.h, h, C, p, q, n, k, D, s)
  <2>1. PICK e : e = r.h
    OBVIOUS
  <2>2. PICK q, D, s : r.ptr = q + 8 /\ Resized(e, h, C, p, q, n, k, D, s)
    BY <1>9, <2>1
  <2>3. /\ Keeps(e, D, h, C, {p, q})
        /\ q \in D /\ q # s /\ is_valid(e, q)
        /\ k <= chunksize(e, q) /\ chunksize(e, q) <= k + 16
        /\ q # p => (q \in C => ~ is_valid(h, q)) /\ (p \in D => ~ is_valid(e, p))
        /\ e.brk >= h.brk /\ Steps(e.brk)
    BY <1>2, <2>2 DEF Resized
  <2>4. PICK M : Sound(e, D, s, M)
    BY <2>2 DEF Resized
  <2>5. PICK b : b = [lo |-> q + 8, size |-> n]
    OBVIOUS
  <2>6. q \in Nat
    <3>1. Shape(e, D, s)
      BY <2>4 DEF Sound
    <3> QED
      BY <2>3, <3>1, Chunk
  <2>7. Instead(e, D, h, C, {p, q}, B[i], b)
    <3>1. b # none /\ b.lo = q + 8
      BY <2>5, <2>6 DEF none, NULL
    <3> QED
      BY <1>3, <2>3, <2>6, <3>1 DEF Instead
  <2>8. PICK g : g = Given(r, i, n)
    OBVIOUS
  <2>9. PICK A : A = [B EXCEPT ![i] = b]
    OBVIOUS
  <2>10. g = [m |-> Filled(e.m, i, b), top |-> e.top, brk |-> e.brk]
    BY <2>1, <2>2, <2>5, <2>8 DEF Given
  <2>11. Holds(g, A)
    <3>1. PICK E : E = {p, q}
      OBVIOUS
    <3>2. Keeps(e, D, h, C, E) /\ Instead(e, D, h, C, E, B[i], b)
      BY <2>3, <2>7, <3>1
    <3>3. Fresh(e, D, s, M, h, C, t, L, B, i, E, q, n)
      BY <1>2, <1>4, <2>3, <2>4, <2>5, <3>2 DEF Fresh
    <3>4. Written(g, e, i, b) /\ Updated(A, B, i, b)
      BY <2>9, <2>10 DEF Written, Updated
    <3> QED
      BY <2>5, <3>3, <3>4, Gives
  <2>12. A = [B EXCEPT ![i] = [lo |-> r.ptr, size |-> n]]
    BY <2>2, <2>5, <2>9
  <2>13. Served(r, h, B, i, n)
    BY <1>9, <2>1, <2>3, <2>8, <2>11, <2>12 DEF Served
  <2>14. ASSUME n > B[i].size, NEW w \in Compared(r.ptr, B[i], n)
         PROVE  r.h.m[w] = Fill(i)
    <3>1. PICK m : m = B[i].size
      OBVIOUS
    <3>2. m \in Requests /\ m \in Nat /\ m % 4 = 0 /\ m < n /\ m + 4 <= chunksize(h, p)
      <4>1. m \in Requests /\ m \in Nat /\ m % 4 = 0
        BY <1>3, <3>1, Asked
      <4>2. chunksize(h, p) >= m + 4 /\ m < n
        BY <1>3, <1>5, <2>14, <3>1, <4>1
      <4>3. Shape(h, C, t)
        BY <1>2 DEF Sound
      <4>4. chunksize(h, p) \in Int
        BY <4>3, Chunk
      <4> QED
        BY <4>1, <4>2, <4>4
    <3>3. chunksize(h, p) <= k + 16
      <4>1. PICK j : j = size2chunksize(m)
        OBVIOUS
      <4>2. j \in Int /\ j <= k
        BY <1>4, <3>2, <4>1, Asked, AskedMore
      <4>3. chunksize(h, p) <= j + 16
        BY <1>3, <3>1, <4>1 DEF At
      <4>4. Shape(h, C, t)
        BY <1>2 DEF Sound
      <4>5. chunksize(h, p) \in Int
        BY <4>4, Chunk
      <4> QED
        BY <1>5, <4>2, <4>3, <4>5
    <3>4. Same(e, q, h, p, m)
      <4>1. m <= n
        BY <1>5, <3>2
      <4> QED
        BY <2>2, <3>2, <3>3, <4>1 DEF Resized
    <3>5. w \in User(q, m)
      <4>1. ~ (n < m)
        BY <1>5, <3>2
      <4> QED
        BY <2>2, <2>14, <3>1, <4>1 DEF Compared, User
    <3>6. PICK v \in User(p, m) : e.m[w] = h.m[v]
      BY <3>4, <3>5 DEF Same
    <3>7. v \in Payload(B[i])
      BY <1>3, <3>1, <3>6 DEF User
    <3> QED
      BY <1>3, <2>1, <3>6, <3>7 DEF At
  <2> QED
    BY <2>13, <2>14
<1> QED
  BY <1>7, <1>8, <1>9 DEF Regot

-----------------------------------------------------------------------------
(* The walk from the start of the heap. *)

Onward(h, p) == p < next_chunk(h, p) /\ next_chunk(h, p) < h.brk /\ next_chunk(h, p) \in Cells

Walk(h, from) == [p \in Cells |-> {p} \union IF Onward(h, p) THEN from[next_chunk(h, p)] ELSE {}]

\* No step leads out of S
Closed(h, S) == \A x \in S : Onward(h, x) => next_chunk(h, x) \in S

\* In any memory there are sets that a walk meets.
LEMMA WalkExists == \A h : \E f : f = Walk(h, f)
<1>1. TAKE h
<1> DEFINE F == [p \in Cells |-> {q \in Cells : \A S \in SUBSET Cells : p \in S /\ Closed(h, S) => q \in S}]
<1>2. ASSUME NEW p \in Cells
      PROVE  p \in F[p] /\ F[p] \in SUBSET Cells /\ Closed(h, F[p])
  BY DEF Closed, Onward
<1>3. ASSUME NEW p \in Cells, NEW S \in SUBSET Cells, p \in S, Closed(h, S)
      PROVE  F[p] \subseteq S
  BY <1>3
<1> HIDE DEF F
<1>4. ASSUME NEW p \in Cells
      PROVE  F[p] = Walk(h, F)[p]
  <2>1. PICK n : n = next_chunk(h, p)
    OBVIOUS
  <2>2. CASE Onward(h, p)
    <3>1. n \in Cells
      BY <2>1, <2>2 DEF Onward
    <3>2. {p} \union F[n] \in SUBSET Cells /\ Closed(h, {p} \union F[n])
      BY <1>2, <2>1, <3>1 DEF Closed
    <3>3. F[p] \subseteq {p} \union F[n]
      BY <1>3, <3>2
    <3>4. n \in F[p]
      BY <1>2, <2>1, <2>2 DEF Closed
    <3>5. F[n] \subseteq F[p]
      BY <1>2, <1>3, <3>1, <3>4
    <3>6. F[p] = {p} \union F[n]
      BY <1>2, <3>3, <3>5
    <3> QED
      BY <2>1, <2>2, <3>6 DEF Walk
  <2>3. CASE ~ Onward(h, p)
    <3>1. {p} \in SUBSET Cells /\ Closed(h, {p})
      BY <2>3 DEF Closed
    <3>2. F[p] = {p}
      BY <1>2, <1>3, <3>1
    <3> QED
      BY <2>3, <3>2 DEF Walk
  <2> QED
    BY <2>2, <2>3
<1>5. F = [p \in Cells |-> F[p]]
  BY DEF F
<1>6. F = Walk(h, F)
  BY <1>4, <1>5 DEF Walk
<1> QED
  BY <1>6

\* The walk through the chunks of a heap meets those from where it starts on.
LEMMA WalkMeets ==
  ASSUME NEW h, NEW C, NEW t, Shape(h, C, t), NEW f, f = Walk(h, f)
  PROVE  f[mem_heap_lo] = C
<1> DEFINE Beyond(p) == {c \in C : p <= c}
           Wrong == {p \in C : f[p] # Beyond(p)}
<1>1. \A p \in C : p \in Nat /\ p <= h.brk /\ h.brk \in Int /\ p \in Cells /\ 40 <= p
  <2>1. ASSUME NEW p \in C
        PROVE  p \in Nat /\ p <= h.brk /\ h.brk \in Int /\ p \in Cells /\ 40 <= p
    <3>1. /\ p \in Nat /\ chunksize(h, p) \in Int /\ chunksize(h, p) >= 8 /\ p + chunksize(h, p) <= h.brk
          /\ h.brk \in Int /\ p \in Cells /\ 40 <= p
      BY Chunk
    <3> QED
      BY <3>1
  <2> QED
    BY <2>1
<1>2. Wrong = {}
  <2>1. SUFFICES ASSUME Wrong # {} PROVE FALSE
    OBVIOUS
  <2> DEFINE Left == {h.brk - p : p \in Wrong}
  <2>2. Left \subseteq Nat /\ Left # {}
    BY <1>1, <2>1
  <2> HIDE DEF Left
  <2>3. PICK x \in Left : \A y \in Left : x <= y
    BY <2>2, LeastNatural
  <2> USE DEF Left
  <2>4. PICK p \in Wrong : x = h.brk - p
    OBVIOUS
  <2>5. \A q \in Wrong : ~ (p < q)
    <3>1. ASSUME NEW q \in Wrong, p < q
          PROVE  FALSE
      <4>1. q \in C /\ p \in C /\ q \in Nat /\ p \in Nat /\ h.brk \in Int
        BY <1>1
      <4>2. h.brk - p <= h.brk - q
        BY <2>3, <2>4
      <4> HIDE DEF Left, Wrong
      <4> QED
        BY <3>1, <4>1, <4>2
    <3> QED
      BY <3>1
  <2>6. p \in C /\ f[p] # Beyond(p)
    OBVIOUS
  <2>7. PICK n : n = next_chunk(h, p)
    OBVIOUS
  <2>8. /\ n = p + chunksize(h, p) /\ p \in Nat /\ p < n /\ n \in Int /\ h.brk \in Int
        /\ \A c \in C : c \in Nat /\ (p < c => n <= c) /\ c < h.brk
    <3>1. /\ p \in Nat /\ chunksize(h, p) \in Int /\ chunksize(h, p) >= 8 /\ h.brk \in Int
          /\ \A c \in C : p < c => p + chunksize(h, p) <= c
      BY <2>6, Chunk
    <3>2. n = p + chunksize(h, p)
      BY <2>7 DEF next_chunk
    <3>3. ASSUME NEW c \in C
          PROVE  c \in Nat /\ c < h.brk
      <4>1. c \in Nat /\ chunksize(h, c) \in Int /\ chunksize(h, c) >= 8 /\ c + chunksize(h, c) <= h.brk
            /\ h.brk \in Int
        BY Chunk
      <4> QED
        BY <4>1
    <3> QED
      BY <3>1, <3>2, <3>3
  <2>9. f[p] = {p} \union IF Onward(h, p) THEN f[n] ELSE {}
    <3>1. f[p] = Walk(h, f)[p] /\ p \in Cells
      BY <1>1, <2>6
    <3> QED
      BY <2>7, <3>1 DEF Walk
  <2>10. CASE p = t
    <3>1. n = h.brk
      BY <2>6, <2>8, <2>10 DEF Shape
    <3>2. ~ Onward(h, p)
      <4>1. ~ (n < h.brk)
        BY <2>8, <3>1
      <4> QED
        BY <2>7, <4>1 DEF Onward
    <3>3. \A c \in C : p <= c => c = p
      BY <2>8, <3>1
    <3>4. Beyond(p) = {p}
      <4>1. \A c \in C : p <= c <=> c = p
        BY <2>8, <3>3
      <4> QED
        BY <2>6, <4>1
    <3> QED
      BY <2>6, <2>9, <3>2, <3>4
  <2>11. CASE p # t
    <3>1. n \in C
      BY <2>6, <2>8, <2>11, Chunk
    <3>2. Onward(h, p)
      <4>1. p < n /\ n < h.brk /\ n \in Cells
        BY <1>1, <2>8, <3>1
      <4> QED
        BY <2>7, <4>1 DEF Onward
    <3>3. f[n] = Beyond(n)
      BY <2>5, <2>8, <3>1
    <3>4. Beyond(p) = {p} \union Beyond(n)
      <4>1. ASSUME NEW c \in C
            PROVE  p <= c <=> c = p \/ n <= c
        <5>1. c \in Nat /\ (p < c => n <= c)
          BY <2>8
        <5> HIDE DEF Wrong
        <5> QED
          BY <2>8, <5>1
      <4> QED
        BY <2>6, <4>1
    <3> QED
      BY <2>6, <2>9, <3>2, <3>3, <3>4
  <2> QED
    BY <2>10, <2>11
<1>3. mem_heap_lo \in C
  BY DEF Shape
<1>4. Beyond(mem_heap_lo) = C
  BY <1>1, Constants
<1> QED
  BY <1>2, <1>3, <1>4

\* The chunks that the properties meet on their walk are those of the heap.
LEMMA ChunksAre ==
  ASSUME NEW C, NEW t, Shape(heap, C, t)
  PROVE  Chunks = C
<1> DEFINE f == CHOOSE w : w = Walk(heap, w)
<1>1. f = Walk(heap, f)
  BY WalkExists
<1>2. Chunks = f[mem_heap_lo]
  BY DEF Chunks, Walk, Onward, heap
<1> HIDE DEF f
<1> QED
  BY <1>1, <1>2, WalkMeets

-----------------------------------------------------------------------------
(* The states. *)

\* The heap is made of chunks and lists, and its chunks in use are the blocks
\* of the user.
IInv == Holds(heap, blocks)

\* The properties read the chunks and the lists of the invariant.
LEMMA StateFacts ==
  ASSUME IInv
  PROVE  \E C, L : /\ Sound(heap, C, top, L) /\ Placed(heap, C, blocks) /\ Steps(brk)
                   /\ Shape(heap, C, top) /\ Chunks = C
                   /\ \A b \in Bins : Chain(heap, b) = L[b]
<1>1. heap.top = top /\ heap.brk = brk
  BY DEF heap
<1>2. PICK C, L : Sound(heap, C, top, L) /\ Placed(heap, C, blocks) /\ Steps(brk)
  BY <1>1 DEF IInv, Holds
<1>3. Shape(heap, C, top) /\ Lists(heap, L)
  BY <1>2 DEF Sound
<1>4. Chunks = C
  BY <1>3, ChunksAre
<1>5. ASSUME NEW b \in Bins
      PROVE  Chain(heap, b) = L[b]
  <2>1. PICK l : l = L[b]
    OBVIOUS
  <2>2. List(heap, b, l) /\ Injective(l)
    BY <1>3, <2>1, ListedFacts
  <2> QED
    BY <2>1, <2>2, ChainIsList
<1> QED
  BY <1>2, <1>3, <1>4, <1>5

\* A sound heap has the data of its user.
LEMMA KeptHolds == IInv => DataKept
<1>1. SUFFICES ASSUME IInv, NEW i \in Ids, blocks[i] # none, NEW w \in Payload(blocks[i])
               PROVE  mem[w] = Fill(i)
  BY DEF DataKept, Held
<1>2. PICK C : Placed(heap, C, blocks)
  BY <1>1, StateFacts
<1>3. PICK p : At(heap, C, blocks[i], i, p)
  BY <1>1, <1>2 DEF Placed
<1>4. heap.m[w] = Fill(i)
  BY <1>1, <1>3 DEF At
<1> QED
  BY <1>4 DEF heap

\* The chunks of a sound heap tile it.
LEMMA TiledHolds == IInv => HeapTiled
<1>1. SUFFICES ASSUME IInv PROVE HeapTiled
  OBVIOUS
<1>2. PICK C, L : /\ Sound(heap, C, top, L) /\ Placed(heap, C, blocks) /\ Steps(brk)
                  /\ Shape(heap, C, top) /\ Chunks = C
  BY <1>1, StateFacts
<1>3. (brk - mem_heap_lo) % TOP_ALIGNMENT = 0
  <2>1. PICK k \in Int : brk - mem_heap_lo = k * TOP_ALIGNMENT
    BY <1>2 DEF Steps
  <2>2. TOP_ALIGNMENT \in Nat \ {0}
    BY Constants
  <2>3. (k * TOP_ALIGNMENT) % TOP_ALIGNMENT = 0
    BY <2>2, Multiples
  <2> QED
    BY <2>1, <2>3
<1>4. brk <= mem_heap_lo + MAX_HEAP /\ top \in C /\ next_chunk(heap, top) = brk
  <2>1. heap.brk = brk
    BY DEF heap
  <2> QED
    BY <1>2, <2>1 DEF Shape, HeapEnd, next_chunk
<1>5. \A p \in C \ {top} : next_chunk(heap, p) \in C
  BY <1>2, NextChunk
<1>6. \A i \in Held : \E p : ChunkAt(heap, C, top, blocks[i], i, p)
  BY <1>2, ChunkOf DEF Held
<1>7. \A i \in Held : mem2chunk(blocks[i].lo) \in C /\ is_valid(heap, mem2chunk(blocks[i].lo))
                      /\ chunksize(heap, mem2chunk(blocks[i].lo)) >= blocks[i].size + 4
  <2>1. SUFFICES ASSUME NEW i \in Held
                 PROVE  mem2chunk(blocks[i].lo) \in C /\ is_valid(heap, mem2chunk(blocks[i].lo))
                        /\ chunksize(heap, mem2chunk(blocks[i].lo)) >= blocks[i].size + 4
    OBVIOUS
  <2>2. PICK p : ChunkAt(heap, C, top, blocks[i], i, p)
    BY <1>6
  <2>3. /\ p \in C /\ is_valid(heap, p) /\ blocks[i].lo = p + 8
        /\ chunksize(heap, p) >= blocks[i].size + 4 /\ p \in Nat
    BY <2>2 DEF ChunkAt
  <2>4. mem2chunk(blocks[i].lo) = p
    BY <2>3 DEF mem2chunk
  <2> QED
    BY <2>3, <2>4
<1>8. \A p \in C : is_valid(heap, p) => \E i \in Held : p = mem2chunk(blocks[i].lo)
  <2>1. \A p \in C : p + 8 - 8 = p
    <3>1. \A p \in C : p \in Nat
      BY <1>2, Chunk
    <3> QED
      BY <3>1
  <2>2. ASSUME NEW p \in C, is_valid(heap, p)
        PROVE  \E i \in Held : p = mem2chunk(blocks[i].lo)
    <3>1. PICK i \in Ids : blocks[i] # none /\ blocks[i].lo = p + 8
      BY <1>2, <2>2 DEF Placed
    <3>2. i \in Held
      BY <3>1 DEF Held
    <3>3. mem2chunk(blocks[i].lo) = p
      <4>1. p \in Nat /\ blocks[i].lo = p + 8
        BY <1>2, <2>2, <3>1, Chunk
      <4>2. PICK x : x = blocks[i].lo
        OBVIOUS
      <4>3. x - 8 = p
        BY <4>1, <4>2
      <4> QED
        BY <4>2, <4>3 DEF mem2chunk
    <3> QED
      BY <3>2, <3>3
  <2> QED
    BY <2>2
<1>9. {p \in C : is_valid(heap, p)} = {mem2chunk(blocks[i].lo) : i \in Held}
  BY <1>7, <1>8
<1> QED
  BY <1>2, <1>3, <1>4, <1>5, <1>7, <1>9 DEF HeapTiled

\* The chunks of the bins are free ones, and mm_check finds them sound but for
\* neighbours that were not merged.
LEMMA ChecksHold ==
  ASSUME NEW C, NEW L, Sound(heap, C, top, L), NEW p \in Listed(L)
  PROVE  check_chunk(heap, p) \in {"not merged", "sound"}
<1>1. Shape(heap, C, top) /\ FreeListed(heap, C, top, L, {}) /\ Tagged(heap, C, top, {})
  BY DEF Sound
<1>2. p \in C /\ p # top /\ ~ is_valid(heap, p)
  BY <1>1, ListedChunks
<1>3. PICK n : n = next_chunk(heap, p)
  OBVIOUS
<1>4. n = p + chunksize(heap, p) /\ n \in C
  BY <1>1, <1>2, <1>3, NextChunk
<1>5. prev_size(heap, n) = chunksize(heap, p)
  BY <1>1, <1>2, <1>4 DEF Tagged
<1>6. ~ (n > heap.brk - 1)
  <2>1. n \in Nat /\ chunksize(heap, n) \in Int /\ chunksize(heap, n) >= 8 /\ n + chunksize(heap, n) <= heap.brk
        /\ heap.brk \in Int
    BY <1>1, <1>4, Chunk
  <2> QED
    BY <2>1
<1>7. ~ (p < mem_heap_lo)
  <2>1. p \in Nat /\ 40 <= p /\ mem_heap_lo = 40
    BY <1>1, <1>2, Chunk, Constants
  <2> QED
    BY <2>1
<1> QED
  BY <1>2, <1>3, <1>5, <1>6, <1>7 DEF check_chunk

\* The tags of a sound heap are true.
LEMMA TagsHold == IInv => BoundaryTags
<1>1. SUFFICES ASSUME IInv PROVE BoundaryTags
  OBVIOUS
<1>2. PICK C, L : /\ Sound(heap, C, top, L) /\ Shape(heap, C, top) /\ Chunks = C
                  /\ \A b \in Bins : Chain(heap, b) = L[b]
  BY <1>1, StateFacts
<1>3. Tagged(heap, C, top, {}) /\ Lists(heap, L)
  BY <1>2 DEF Sound
<1>4. \A p \in C \ {top} :
        /\ prev_inuse(heap, next_chunk(heap, p)) <=> is_valid(heap, p)
        /\ ~ is_valid(heap, p) => prev_size(heap, next_chunk(heap, p)) = chunksize(heap, p)
  BY <1>3 DEF Tagged, next_chunk
<1>5. ASSUME NEW b \in Bins, NEW p \in ToSet(Chain(heap, b))
      PROVE  check_chunk(heap, p) \in {"not merged", "sound"}
  <2>1. PICK l : l = L[b]
    OBVIOUS
  <2>2. l \in Seq(Cells) /\ \A k \in 1 .. Len(l) : l[k] \in Listed(L)
    BY <1>3, <2>1, ListedFacts
  <2>3. p \in ToSet(l)
    BY <1>2, <1>5, <2>1
  <2>4. PICK k \in 1 .. Len(l) : p = l[k]
    BY <2>2, <2>3 DEF ToSet
  <2>5. p \in Listed(L)
    BY <2>2, <2>4
  <2> QED
    BY <1>2, <2>5, ChecksHold
<1>6. mm_check(heap) \subseteq {"not merged"}
  <2>1. ASSUME NEW b \in Bins
        PROVE  check_bin(heap, b) \subseteq {"not merged", "sound"}
    <3>1. check_bin(heap, b) = {check_chunk(heap, p) : p \in ToSet(Chain(heap, b))}
      BY DEF check_bin
    <3> QED
      BY <1>5, <3>1
  <2>2. ASSUME NEW c \in mm_check(heap)
        PROVE  c = "not merged"
    <3>1. c \in UNION {check_bin(heap, b) : b \in Bins} /\ c # "sound"
      BY <2>2 DEF mm_check
    <3>2. PICK b \in Bins : c \in check_bin(heap, b)
      BY <3>1
    <3> QED
      BY <2>1, <3>1, <3>2
  <2> QED
    BY <2>2
<1> QED
  BY <1>2, <1>4, <1>6 DEF BoundaryTags

\* The bins of a sound heap are exact.
LEMMA BinsHold == IInv => BinsExact
<1>1. SUFFICES ASSUME IInv PROVE BinsExact
  OBVIOUS
<1>2. PICK C, L : /\ Sound(heap, C, top, L) /\ Shape(heap, C, top) /\ Chunks = C
                  /\ \A b \in Bins : Chain(heap, b) = L[b]
  BY <1>1, StateFacts
<1>3. Lists(heap, L) /\ FreeListed(heap, C, top, L, {})
  BY <1>2 DEF Sound
<1> DEFINE free == {p \in C \ {top} : ~ is_valid(heap, p)}
<1>4. \A p \in free : p \in Listed(L)
  BY <1>3 DEF FreeListed
<1>5. \A p \in Listed(L) : p \in free
  BY <1>2, <1>3, ListedChunks
<1>6. ASSUME NEW p \in free
      PROVE  \E b \in Bins : Contains(L[b], p)
  <2>1. PICK b \in Bins : \E k \in 1 .. Len(L[b]) : L[b][k] = p
    BY <1>4, <1>6 DEF Listed
  <2> QED
    BY <2>1 DEF Contains
<1> HIDE DEF free
<1>7. ASSUME NEW b \in Bins, NEW k \in DOMAIN L[b]
      PROVE  /\ L[b][k] \in free
             /\ bk(heap, L[b][k]) = IF k = 1 THEN mem2chunk(b) ELSE L[b][k - 1]
             /\ b # UNSORTED /\ k > 1 => chunksize(heap, L[b][k - 1]) <= chunksize(heap, L[b][k])
  <2>1. PICK l : l = L[b]
    OBVIOUS
  <2>2. l \in Seq(Cells) /\ List(heap, b, l) /\ \A j \in 1 .. Len(l) : l[j] \in Listed(L) /\ l[j] \in Cells
    BY <1>3, <2>1, ListedFacts
  <2>3. k \in 1 .. Len(l) /\ k \in Int /\ Len(l) \in Nat
    BY <1>7, <2>1, <2>2
  <2>4. l[k] \in free
    BY <1>5, <2>2, <2>3
  <2>5. bk(heap, l[k]) = IF k = 1 THEN mem2chunk(b) ELSE l[k - 1]
    <3>1. size(heap, l[k] + 8) = Node(b, l, k - 1)
      BY <2>2, <2>3 DEF List
    <3>2. PICK p : p = l[k]
      OBVIOUS
    <3>3. p \in Int /\ p % 4 = 0
      <4>1. p \in Nat /\ p % 8 = 0
        BY <2>2, <2>3, <3>2, CellNumbers
      <4> QED
        BY <4>1
    <3>4. bk(heap, p) = Node(b, l, k - 1)
      BY <3>1, <3>2, <3>3, Pointers
    <3>5. k - 1 = 0 <=> k = 1
      BY <2>3
    <3> QED
      BY <3>2, <3>4, <3>5 DEF Node, mem2chunk
  <2>6. b # UNSORTED /\ k > 1 => chunksize(heap, l[k - 1]) <= chunksize(heap, l[k])
    <3>1. k > 1 => k \in 2 .. Len(l)
      BY <2>3
    <3> QED
      BY <2>2, <3>1 DEF List
  <2> QED
    BY <2>1, <2>4, <2>5, <2>6
<1>8. BinsExact <=>
        LET list == [bin \in Bins |-> Chain(heap, bin)]
        IN  /\ \A p \in free : \E bin \in Bins : Contains(list[bin], p)
            /\ \A bin \in Bins : \A k \in DOMAIN list[bin] :
                 /\ list[bin][k] \in free
                 /\ bk(heap, list[bin][k]) = IF k = 1 THEN mem2chunk(bin) ELSE list[bin][k - 1]
                 /\ bin # UNSORTED /\ k > 1 =>
                      chunksize(heap, list[bin][k - 1]) <= chunksize(heap, list[bin][k])
  BY <1>2 DEF BinsExact, free
<1> QED
  BY <1>2, <1>6, <1>7, <1>8

\* mm_init: one top chunk and five empty lists (mm.c:451).
LEMMA InitHolds == Init => IInv
<1>1. SUFFICES ASSUME Init PROVE IInv
  OBVIOUS
<1>2. PICK h : h = heap
  OBVIOUS
<1> DEFINE L == [b \in Bins |-> <<>>]
<1>3. /\ h.top = mem_heap_lo /\ h.brk = mem_heap_lo + TOP_ALIGNMENT
      /\ h.m = [w \in Words |-> IF w = word(mem_heap_lo) + 1 THEN TOP_ALIGNMENT + 2 ELSE 0]
  BY <1>1, <1>2 DEF heap, Init
<1>4. h \in Heaps
  <2>1. h = [m |-> mem, top |-> top, brk |-> brk]
    BY <1>2 DEF heap
  <2>2. mem \in [Words -> Int] /\ top \in Int /\ brk \in Int
    BY <1>1, Constants DEF Init
  <2> QED
    BY <2>1, <2>2 DEF Heaps
<1>5. /\ mem_heap_lo \in Cells /\ word(mem_heap_lo) + 1 \in Words /\ word(mem_heap_lo) = 10
      /\ \A b \in Bins : word(b) \in Words /\ word(b) # 11
  <2>1. mem_heap_lo \in Cells
    BY CellNumbers, Constants
  <2>2. word(mem_heap_lo) = 10
    BY Constants DEF word
  <2>3. \A b \in Bins : word(b) # 11
    BY DEF word, Bins, UNSORTED, SMALL, MIDDLE, LARGE, HUGE
  <2>4. \A b \in Bins : b \in Slots
    BY DEF Slots
  <2> QED
    BY <2>1, <2>2, <2>3, <2>4, CellWords
<1>6. size(h, mem_heap_lo) = TOP_ALIGNMENT + 2 /\ \A b \in Bins : prev_size(h, b) = 0
  BY <1>3, <1>5 DEF size, prev_size
<1>7. chunksize(h, mem_heap_lo) = TOP_ALIGNMENT /\ ~ is_valid(h, mem_heap_lo) /\ prev_inuse(h, mem_heap_lo)
  <2>1. PICK k : k = TOP_ALIGNMENT \div 8
    OBVIOUS
  <2>2. k \in Int /\ TOP_ALIGNMENT = 8 * k
    BY <2>1, Constants
  <2>3. PICK x : x = TOP_ALIGNMENT + 2
    OBVIOUS
  <2>4. x = 8 * k + 2
    BY <2>2, <2>3
  <2>5. x % 8 = 2 /\ x % 2 = 0 /\ x \div 2 = 4 * k + 1
    BY <2>2, <2>4
  <2>6. (x \div 2) % 2 = 1 /\ x - 2 = TOP_ALIGNMENT
    BY <2>2, <2>4, <2>5
  <2>7. x # 1 /\ 0 # 1
    BY <2>2, <2>4
  <2> QED
    BY <1>6, <2>3, <2>5, <2>6, <2>7 DEF chunksize, flags, is_valid, prev_inuse
<1>8. Shape(h, {mem_heap_lo}, mem_heap_lo)
  <2>1. PICK C : C = {mem_heap_lo}
    OBVIOUS
  <2>2. /\ h.brk % 8 = 0 /\ h.brk <= HeapEnd /\ C \subseteq Cells
        /\ mem_heap_lo + chunksize(h, mem_heap_lo) = h.brk /\ chunksize(h, mem_heap_lo) >= 8
        /\ h.brk \in Int /\ ~ (mem_heap_lo < mem_heap_lo)
    BY <1>3, <1>5, <1>7, <2>1, Constants
  <2> QED
    BY <1>4, <1>7, <2>1, <2>2 DEF Shape
<1>9. Tagged(h, {mem_heap_lo}, mem_heap_lo, {})
  BY DEF Tagged
<1>10. Lists(h, L)
  <2>1. ASSUME NEW b \in Bins
        PROVE  List(h, b, <<>>)
    <3>1. prev_size(h, b - 8 + 8) = 0
      <4>1. b \in Int
        BY DEF Bins, UNSORTED, SMALL, MIDDLE, LARGE, HUGE
      <4>2. b - 8 + 8 = b
        BY <4>1
      <4> QED
        BY <1>6, <4>2
    <3>2. <<>> \in Seq(Cells) /\ Len(<<>>) = 0
      OBVIOUS
    <3>3. \A k \in 0 .. 0 : k = 0
      OBVIOUS
    <3>4. \A k \in 0 .. Len(<<>>) :
            prev_size(h, Node(b, <<>>, k) + 8) = IF k = Len(<<>>) THEN NULL ELSE <<>>[k + 1]
      BY <3>1, <3>2, <3>3 DEF Node, NULL
    <3> QED
      BY <3>2, <3>4 DEF List
  <2>2. \A b \in Bins : L[b] = <<>> /\ Len(L[b]) = 0
    OBVIOUS
  <2>3. Once(L)
    BY <2>2 DEF Once
  <2>4. L = [b \in Bins |-> L[b]]
    OBVIOUS
  <2> QED
    BY <2>1, <2>2, <2>3, <2>4 DEF Lists
<1>11. FreeListed(h, {mem_heap_lo}, mem_heap_lo, L, {})
  <2>1. Listed(L) = {}
    BY DEF Listed
  <2> QED
    BY <2>1 DEF FreeListed
<1> HIDE DEF L
<1>12. Sound(h, {mem_heap_lo}, mem_heap_lo, L)
  BY <1>3, <1>7, <1>8, <1>9, <1>10, <1>11 DEF Sound
<1>13. Placed(h, {mem_heap_lo}, blocks)
  <2>1. blocks = [i \in Ids |-> none]
    BY <1>1 DEF Init
  <2>2. \A i \in Ids : blocks[i] = none
    BY <2>1
  <2>3. blocks = [i \in Ids |-> blocks[i]]
    BY <2>1
  <2> QED
    BY <1>7, <2>2, <2>3 DEF Placed
<1>14. Steps(h.brk)
  BY <1>3, Constants DEF Steps
<1> QED
  BY <1>2, <1>3, <1>12, <1>13, <1>14 DEF IInv, Holds

\* A heap is its three parts.
LEMMA Parts ==
  ASSUME NEW h, NEW B, Holds(h, B), NEW g, g = [m |-> h.m, top |-> h.top, brk |-> h.brk]
  PROVE  Holds(g, B)
<1>1. h \in Heaps
  BY DEF Holds, Sound, Shape
<1>2. g = h
  BY <1>1 DEF Heaps
<1> QED
  BY <1>2

\* What a call for block i has done
Called(r, i, n) == IF r.ptr = NULL THEN Store(r.h) /\ UNCHANGED blocks ELSE Give(i, r, n)

\* A call that was served leaves a sound heap; it moves one block, if any.
LEMMA CallHolds ==
  ASSUME NEW i \in Ids, NEW n \in Requests, NEW r, Served(r, heap, blocks, i, n), Called(r, i, n)
  PROVE  /\ IInv'
         /\ r.ptr = NULL => blocks' = blocks /\ brk' = brk
         /\ r.ptr # NULL => blocks' = [blocks EXCEPT ![i] = [lo |-> r.ptr, size |-> n]] /\ brk' >= brk
<1>1. heap.brk = brk
  BY DEF heap
<1>2. CASE r.ptr = NULL
  <2>1. Holds(r.h, blocks) /\ r.h.brk = brk
    BY <1>1, <1>2 DEF Served
  <2>2. mem' = r.h.m /\ top' = r.h.top /\ brk' = r.h.brk /\ blocks' = blocks
    BY <1>2 DEF Called, Store
  <2>3. PICK g : g = [m |-> mem', top |-> top', brk |-> brk']
    OBVIOUS
  <2>4. Holds(g, blocks)
    <3>1. PICK f : f = r.h
      OBVIOUS
    <3>2. g = [m |-> f.m, top |-> f.top, brk |-> f.brk]
      BY <2>2, <2>3, <3>1
    <3> QED
      BY <2>1, <3>1, <3>2, Parts
  <2>5. IInv'
    BY <2>2, <2>3, <2>4 DEF IInv, heap
  <2> QED
    BY <1>2, <2>1, <2>2, <2>5
<1>3. CASE r.ptr # NULL
  <2>1. PICK b : b = [lo |-> r.ptr, size |-> n]
    OBVIOUS
  <2>2. Holds(Given(r, i, n), [blocks EXCEPT ![i] = b]) /\ r.h.brk >= brk
    BY <1>1, <1>3, <2>1 DEF Served
  <2>3. /\ mem' = Filled(r.h.m, i, b) /\ top' = r.h.top /\ brk' = r.h.brk
        /\ blocks' = [blocks EXCEPT ![i] = b]
    BY <1>3, <2>1 DEF Called, Give
  <2>4. [m |-> mem', top |-> top', brk |-> brk'] = Given(r, i, n)
    BY <2>1, <2>3 DEF Given
  <2>5. IInv'
    BY <2>2, <2>3, <2>4 DEF IInv, heap
  <2> QED
    BY <1>3, <2>1, <2>2, <2>3, <2>5
<1> QED
  BY <1>2, <1>3

\* The index that Malloc takes is one without a block.
LEMMA Unheld == ASSUME NEW i \in Ids, i = FirstUnused PROVE blocks[i] = none
<1>1. Ids \subseteq Nat /\ NULL \notin Ids
  BY IdsAssumption DEF NULL
<1>2. PICK unused : unused = Ids \ Held
  OBVIOUS
<1>3. FirstUnused = IF unused = {} THEN NULL ELSE CHOOSE j \in unused : \A k \in unused : j <= k
  BY <1>2 DEF FirstUnused
<1>4. unused # {}
  BY <1>1, <1>3
<1>5. unused \subseteq Nat
  BY <1>1, <1>2
<1>6. \E j \in unused : \A k \in unused : j <= k
  BY <1>4, <1>5, LeastNatural
<1>7. i \in unused
  BY <1>3, <1>4, <1>6
<1> QED
  BY <1>2, <1>7 DEF Held

\* A malloc line of a trace is served.
LEMMA MallocHolds ==
  ASSUME IInv, NEW i \in Ids, NEW n \in Requests, Malloc(i, n)
  PROVE  \E r : Served(r, heap, blocks, i, n) /\ Called(r, i, n) /\ blocks[i] = none
<1>1. blocks[i] = none
  BY Unheld DEF Malloc
<1>2. PICK r : r = mm_malloc(heap, n)
  OBVIOUS
<1>3. Called(r, i, n)
  BY <1>2 DEF Malloc, Called
<1>4. PICK h, B : h = heap /\ B = blocks
  OBVIOUS
<1>5. Served(r, h, B, i, n)
  <2>1. Holds(h, B) /\ B[i] = none /\ r = mm_malloc(h, n)
    BY <1>1, <1>2, <1>4 DEF IInv
  <2> QED
    BY <2>1, MallocServed
<1> QED
  BY <1>1, <1>3, <1>4, <1>5

\* A free line of a trace is served.
LEMMA FreeHolds ==
  ASSUME IInv, NEW i \in Ids, Free(i)
  PROVE  IInv' /\ blocks' = [blocks EXCEPT ![i] = none] /\ brk' = brk /\ blocks[i] # none
<1>1. PICK h, B : h = heap /\ B = blocks
  OBVIOUS
<1>2. PICK g : g = mm_free(h, B[i].lo)
  OBVIOUS
<1>3. PICK A : A = [B EXCEPT ![i] = none]
  OBVIOUS
<1>4. blocks[i] # none /\ mem' = g.m /\ top' = g.top /\ brk' = g.brk /\ blocks' = A
  BY <1>1, <1>2, <1>3 DEF Free, Store
<1>5. Holds(g, A) /\ g.brk = h.brk
  <2>1. Holds(h, B) /\ B[i] # none
    BY <1>1, <1>4 DEF IInv
  <2>2. Updated(A, B, i, none)
    BY <1>3 DEF Updated
  <2>3. HoldsAt(g, A, h.brk)
    BY <1>2, <2>1, <2>2, FreeServed
  <2> QED
    BY <2>3 DEF HoldsAt
<1>6. PICK f : f = [m |-> mem', top |-> top', brk |-> brk']
  OBVIOUS
<1>7. Holds(f, A)
  <2>1. f = [m |-> g.m, top |-> g.top, brk |-> g.brk]
    BY <1>4, <1>6
  <2> QED
    BY <1>5, <2>1, Parts
<1>8. IInv'
  BY <1>4, <1>6, <1>7 DEF IInv, heap
<1>9. brk' = brk
  BY <1>1, <1>4, <1>5 DEF heap
<1> QED
  BY <1>1, <1>3, <1>4, <1>8, <1>9

\* A realloc line of a trace is served, unless it meets mm.c:424.
LEMMA ReallocHolds ==
  ASSUME IInv, NEW i \in Ids, NEW n \in Requests, SoundRealloc(i, n)
  PROVE  \E r : /\ Served(r, heap, blocks, i, n) /\ Called(r, i, n) /\ blocks[i] # none
                /\ r.ptr # NULL /\ n > blocks[i].size => preserved'
<1>1. PICK h, B : h = heap /\ B = blocks
  OBVIOUS
<1>2. PICK r : r = mm_realloc(h, B[i].lo, n)
  OBVIOUS
<1>3. /\ B[i] # none /\ ~ GrowsIntoFree(h, B[i].lo, n)
      /\ IF r.ptr = NULL
         THEN Store(r.h) /\ UNCHANGED <<blocks, preserved>>
         ELSE /\ Give(i, r, n)
              /\ preserved' = \A w \in Compared(r.ptr, B[i], n) : r.h.m[w] = Fill(i)
  BY <1>1, <1>2 DEF SoundRealloc, Realloc
<1>4. /\ Served(r, h, B, i, n)
      /\ r.ptr # NULL /\ n > B[i].size => \A w \in Compared(r.ptr, B[i], n) : r.h.m[w] = Fill(i)
  <2>1. Holds(h, B)
    BY <1>1 DEF IInv
  <2> QED
    BY <1>2, <1>3, <2>1, ReallocServed
<1>5. Called(r, i, n)
  BY <1>3 DEF Called
<1>6. r.ptr # NULL /\ n > B[i].size => preserved'
  BY <1>3, <1>4
<1> QED
  BY <1>1, <1>3, <1>4, <1>5, <1>6

\* Every step keeps the heap sound.
LEMMA StepHolds == IInv /\ [SoundNext]_vars => IInv'
<1>1. SUFFICES ASSUME IInv, [SoundNext]_vars PROVE IInv'
  OBVIOUS
<1>2. ASSUME NEW i \in Ids, NEW n \in Requests, Malloc(i, n)
      PROVE  IInv'
  <2>1. PICK r : Served(r, heap, blocks, i, n) /\ Called(r, i, n)
    BY <1>1, <1>2, MallocHolds
  <2> QED
    BY <2>1, CallHolds
<1>3. ASSUME NEW i \in Ids, Free(i)
      PROVE  IInv'
  BY <1>1, <1>3, FreeHolds
<1>4. ASSUME NEW i \in Ids, NEW n \in Requests, SoundRealloc(i, n)
      PROVE  IInv'
  <2>1. PICK r : Served(r, heap, blocks, i, n) /\ Called(r, i, n)
    BY <1>1, <1>4, ReallocHolds
  <2> QED
    BY <2>1, CallHolds
<1>5. CASE UNCHANGED vars
  <2>1. heap' = heap /\ blocks' = blocks
    BY <1>5 DEF vars, heap
  <2> QED
    BY <1>1, <2>1 DEF IInv
<1> QED
  BY <1>1, <1>2, <1>3, <1>4, <1>5 DEF SoundNext

\* After every call of mm_malloc, mm_free and mm_realloc the heap of mm.c is made
\* of chunks with true tags and of five exact lists, and its chunks in use are
\* the blocks of the user, as it filled them.
THEOREM HeapSound == SoundSpec => []IInv
<1>1. Init => IInv
  BY InitHolds
<1>2. IInv /\ [SoundNext]_vars => IInv'
  BY StepHolds
<1> QED
  BY <1>1, <1>2, PTL DEF SoundSpec

\* No call of mm.c writes to a word of a block that the user keeps, the last one
\* included, where the next chunk has its prev_size.
THEOREM DataStays == SoundSpec => []DataKept
BY HeapSound, KeptHolds, PTL

\* The chunks are the whole heap, end to end, and those in use are the user's
\* blocks: split_chunk and coalesce_chunk lose nothing and overlap nothing.
THEOREM HeapIsTiled == SoundSpec => []HeapTiled
BY HeapSound, TiledHolds, PTL

\* coalesce_chunk may believe PREV_INUSE, prev_size and VALID of its neighbours,
\* and mm_check finds every listed chunk free, in the heap and of the size that
\* the next one tells.
THEOREM TagsAreTrue == SoundSpec => []BoundaryTags
BY HeapSound, TagsHold, PTL

\* Every free chunk but the top is in exactly one of the five lists, linked both
\* ways, and four of the lists are sorted as find_chunk_from_bin needs them.
THEOREM BinsAreExact == SoundSpec => []BinsExact
BY HeapSound, BinsHold, PTL

\* A block has the size that was asked for.
LEMMA BlockSizes == ASSUME IInv, NEW i \in Ids, blocks[i] # none
                    PROVE  blocks[i].size \in Requests /\ blocks[i].size \in Nat
<1>1. PICK C : Placed(heap, C, blocks)
  BY DEF IInv, Holds
<1>2. PICK p : At(heap, C, blocks[i], i, p)
  BY <1>1 DEF Placed
<1>3. blocks[i].size \in Requests
  BY <1>2 DEF At
<1> QED
  BY <1>3, Constants

\* A block that grew was moved by realloc, which copied it.
LEMMA GrownBlock ==
  ASSUME IInv, SoundNext, NEW j \in Ids, blocks[j] # none, blocks'[j].size > blocks[j].size
  PROVE  preserved'
<1>0. blocks = [k \in Ids |-> blocks[k]]
  BY DEF IInv, Holds, Placed
<1>1. blocks[j].size \in Nat
  BY BlockSizes
<1>2. blocks'[j] # blocks[j]
  BY <1>1
<1>3. ASSUME NEW i \in Ids, NEW n \in Requests, Malloc(i, n)
      PROVE  FALSE
  <2>1. PICK r : Served(r, heap, blocks, i, n) /\ Called(r, i, n) /\ blocks[i] = none
    BY <1>3, MallocHolds
  <2>2. blocks' = blocks \/ \E b : blocks' = [blocks EXCEPT ![i] = b]
    BY <2>1, CallHolds
  <2>3. j # i
    BY <2>1
  <2> QED
    BY <1>0, <1>2, <2>2, <2>3
<1>4. ASSUME NEW i \in Ids, Free(i)
      PROVE  FALSE
  <2>1. blocks' = [blocks EXCEPT ![i] = none]
    BY <1>4, FreeHolds
  <2>2. j = i
    BY <1>0, <1>2, <2>1
  <2>3. blocks'[j] = none
    BY <1>0, <2>1, <2>2
  <2>4. blocks'[j].size = 0
    BY <2>3 DEF none
  <2> QED
    BY <1>1, <2>4
<1>5. ASSUME NEW i \in Ids, NEW n \in Requests, SoundRealloc(i, n)
      PROVE  preserved'
  <2>1. PICK r : /\ Served(r, heap, blocks, i, n) /\ Called(r, i, n)
                 /\ r.ptr # NULL /\ n > blocks[i].size => preserved'
    BY <1>5, ReallocHolds
  <2>2. PICK b : b = [lo |-> r.ptr, size |-> n]
    OBVIOUS
  <2>3. /\ r.ptr = NULL => blocks' = blocks
        /\ r.ptr # NULL => blocks' = [blocks EXCEPT ![i] = b]
    BY <2>1, <2>2, CallHolds
  <2>4. r.ptr # NULL /\ j = i
    BY <1>0, <1>2, <2>3
  <2>5. blocks'[j] = b /\ b.size = n
    BY <1>0, <2>2, <2>3, <2>4
  <2> QED
    BY <2>1, <2>4, <2>5
<1> QED
  BY <1>3, <1>4, <1>5 DEF SoundNext

\* realloc gives a block that grows the data of the old one, wherever it is: what
\* eval_mm_valid of mdriver.c compares.
THEOREM ReallocKeepsData == SoundSpec => ReallocKeeps
<1>1. IInv /\ [SoundNext]_vars =>
        [\A i \in Ids : blocks[i] # none /\ blocks'[i].size > blocks[i].size => preserved']_vars
  BY GrownBlock
<1> QED
  BY <1>1, HeapSound, PTL DEF SoundSpec, ReallocKeeps

-----------------------------------------------------------------------------
(* The driver's allocator. *)

\* Blocks are aligned, in the heap and apart.
LEMMA Apart ==
  ASSUME NEW h, NEW B, Holds(h, B), NEW i \in Ids, B[i] # none
  PROVE  /\ B[i].lo % 8 = 0 /\ B[i].lo >= mem_heap_lo /\ B[i].lo + B[i].size <= h.brk
         /\ B[i].size \in Requests
         /\ \A j \in Ids : j # i /\ B[j] # none =>
              \/ B[i].lo + B[i].size <= B[j].lo
              \/ B[j].lo + B[j].size <= B[i].lo
<1>1. PICK C, L : Sound(h, C, h.top, L) /\ Placed(h, C, B)
  BY DEF Holds
<1>2. PICK t : t = h.top
  OBVIOUS
<1>3. Sound(h, C, t, L) /\ Shape(h, C, t)
  BY <1>1, <1>2 DEF Sound
<1>4. ASSUME NEW j \in Ids, B[j] # none
      PROVE  \E p \in C : /\ p \in Nat /\ p % 8 = 0 /\ 40 <= p /\ chunksize(h, p) \in Int
                          /\ B[j].lo = p + 8 /\ B[j].size + 4 <= chunksize(h, p)
                          /\ B[j].size \in Requests /\ B[j].size \in Nat /\ p # t
  <2>1. PICK p : ChunkAt(h, C, t, B[j], j, p)
    BY <1>1, <1>3, <1>4, ChunkOf
  <2>2. /\ p \in C /\ p # t /\ B[j].lo = p + 8 /\ B[j].size \in Requests
        /\ chunksize(h, p) >= B[j].size + 4
    BY <2>1 DEF ChunkAt
  <2>3. p \in Nat /\ p % 8 = 0 /\ 40 <= p /\ chunksize(h, p) \in Int
    BY <1>3, <2>2, Chunk
  <2>4. B[j].size \in Nat
    BY <2>2, Constants
  <2> QED
    BY <2>2, <2>3, <2>4
<1>5. PICK p \in C : /\ p \in Nat /\ p % 8 = 0 /\ 40 <= p /\ chunksize(h, p) \in Int
                     /\ B[i].lo = p + 8 /\ B[i].size + 4 <= chunksize(h, p)
                     /\ B[i].size \in Requests /\ B[i].size \in Nat /\ p # t
  BY <1>4
<1>6. B[i].lo + B[i].size <= h.brk
  <2>1. PICK q : q = p + chunksize(h, p)
    OBVIOUS
  <2>2. q \in C
    BY <1>3, <1>5, <2>1, Chunk
  <2>3. q \in Nat /\ chunksize(h, q) \in Int /\ chunksize(h, q) >= 8 /\ q + chunksize(h, q) <= h.brk
        /\ h.brk \in Int
    BY <1>3, <2>2, Chunk
  <2>4. PICK n \in Nat : n = B[i].size
    BY <1>5
  <2>5. p + 8 + n <= h.brk
    BY <1>5, <2>1, <2>3, <2>4
  <2> QED
    BY <1>5, <2>4, <2>5
<1>7. ASSUME NEW j \in Ids, j # i, B[j] # none
      PROVE  \/ B[i].lo + B[i].size <= B[j].lo
             \/ B[j].lo + B[j].size <= B[i].lo
  <2>1. PICK q \in C : /\ q \in Nat /\ chunksize(h, q) \in Int
                       /\ B[j].lo = q + 8 /\ B[j].size + 4 <= chunksize(h, q) /\ B[j].size \in Nat
    BY <1>4, <1>7
  <2>2. p # q
    BY <1>1, <1>5, <1>7, <2>1 DEF Placed
  <2>3. p < q => p + chunksize(h, p) <= q
    BY <1>3, <1>5, Chunk
  <2>4. q < p => q + chunksize(h, q) <= p
    BY <1>3, <2>1, Chunk
  <2>5. PICK m \in Nat, n \in Nat : m = B[i].size /\ n = B[j].size
    BY <1>5, <2>1
  <2>6. \/ p + 8 + m <= q + 8
        \/ q + 8 + n <= p + 8
    BY <1>5, <2>1, <2>2, <2>3, <2>4, <2>5
  <2> QED
    BY <1>5, <2>1, <2>5, <2>6
<1>8. B[i].lo % 8 = 0 /\ B[i].lo >= mem_heap_lo
  <2>1. PICK x : x = p + 8
    OBVIOUS
  <2>2. x % 8 = 0 /\ x >= 40
    BY <1>5, <2>1
  <2> QED
    BY <1>5, <2>1, <2>2, Constants
<1> QED
  BY <1>5, <1>6, <1>7, <1>8

\* The driver starts with no block, in a heap that is not empty.
LEMMA DriverInit == Init => Driver!Init
<1>1. SUFFICES ASSUME Init PROVE Driver!Init
  OBVIOUS
<1>2. brk > mem_heap_lo
  <2>1. brk = mem_heap_lo + TOP_ALIGNMENT
    BY <1>1 DEF Init
  <2> QED
    BY <2>1, Constants
<1>3. blocks = [i \in Ids |-> Driver!none]
  <2>1. blocks = [i \in Ids |-> none]
    BY <1>1 DEF Init
  <2>2. none = Driver!none
    BY DEF none, NULL, Driver!none
  <2> QED
    BY <2>1, <2>2
<1> QED
  BY <1>2, <1>3 DEF Driver!Init

\* A block that a call returned is one that the driver accepts.
LEMMA GivesBlock ==
  ASSUME IInv, IInv', NEW i \in Ids, NEW n \in Requests, NEW r,
         r.ptr # NULL, blocks' = [blocks EXCEPT ![i] = [lo |-> r.ptr, size |-> n]], brk' >= brk
  PROVE  Driver!Give(i)
<1>1. PICK B, A : B = blocks /\ A = blocks'
  OBVIOUS
<1>2. PICK b : b = [lo |-> r.ptr, size |-> n]
  OBVIOUS
<1>3. PICK g : g = heap'
  OBVIOUS
<1>4. Holds(g, A) /\ g.brk = brk'
  BY <1>1, <1>3 DEF IInv, heap
<1>5. B = [k \in Ids |-> B[k]]
  BY <1>1 DEF IInv, Holds, Placed
<1>6. A = [B EXCEPT ![i] = b] /\ b # none
  <2>1. b.lo # NULL
    BY <1>2
  <2>2. none.lo = NULL
    BY DEF none
  <2> QED
    BY <1>1, <1>2, <2>1, <2>2
<1>7. A[i] = b /\ \A j \in Ids : j # i => A[j] = B[j]
  BY <1>5, <1>6
<1>8. A = [B EXCEPT ![i] = A[i]]
  BY <1>6, <1>7
<1>9. /\ A[i].lo % 8 = 0 /\ A[i].lo >= mem_heap_lo /\ A[i].lo + A[i].size <= g.brk
      /\ A[i].size \in Requests
      /\ \A j \in Ids : j # i /\ A[j] # none =>
           \/ A[i].lo + A[i].size <= A[j].lo
           \/ A[j].lo + A[j].size <= A[i].lo
  BY <1>4, <1>6, <1>7, Apart
<1>10. ASSUME NEW j \in Ids, j # i, B[j] # none
       PROVE  \/ A[i].lo + A[i].size <= B[j].lo
              \/ B[j].lo + B[j].size <= A[i].lo
  BY <1>7, <1>9, <1>10
<1> QED
  BY <1>1, <1>4, <1>8, <1>9, <1>10 DEF Driver!Give, Driver!Fits, Driver!none, none, NULL

\* Each call is one of the driver's allocator, or none.
LEMMA DriverStep == IInv /\ [SoundNext]_vars => [Driver!Next]_(Driver!vars)
<1>1. SUFFICES ASSUME IInv, [SoundNext]_vars PROVE [Driver!Next]_(Driver!vars)
  OBVIOUS
<1>2. IInv'
  BY <1>1, StepHolds
<1>3. ASSUME NEW i \in Ids, NEW n \in Requests, NEW r,
             Served(r, heap, blocks, i, n), Called(r, i, n)
      PROVE  [Driver!Next]_(Driver!vars)
  <2>1. /\ r.ptr = NULL => blocks' = blocks /\ brk' = brk
        /\ r.ptr # NULL => blocks' = [blocks EXCEPT ![i] = [lo |-> r.ptr, size |-> n]] /\ brk' >= brk
    BY <1>3, CallHolds
  <2>2. CASE r.ptr = NULL
    BY <2>1, <2>2 DEF Driver!vars
  <2>3. CASE r.ptr # NULL
    <3>1. Driver!Give(i)
      BY <1>1, <1>2, <2>1, <2>3, GivesBlock
    <3> QED
      BY <3>1 DEF Driver!Next
  <2> QED
    BY <2>2, <2>3
<1>4. ASSUME NEW i \in Ids, NEW n \in Requests, Malloc(i, n)
      PROVE  [Driver!Next]_(Driver!vars)
  BY <1>1, <1>3, <1>4, MallocHolds
<1>5. ASSUME NEW i \in Ids, NEW n \in Requests, SoundRealloc(i, n)
      PROVE  [Driver!Next]_(Driver!vars)
  BY <1>1, <1>3, <1>5, ReallocHolds
<1>6. ASSUME NEW i \in Ids, Free(i)
      PROVE  [Driver!Next]_(Driver!vars)
  <2>1. blocks' = [blocks EXCEPT ![i] = none] /\ brk' = brk /\ blocks[i] # none
    BY <1>1, <1>6, FreeHolds
  <2>2. Driver!Take(i)
    BY <2>1 DEF Driver!Take, Driver!none, none, NULL
  <2> QED
    BY <2>2 DEF Driver!Next
<1>7. CASE UNCHANGED vars
  BY <1>7 DEF vars, Driver!vars
<1> QED
  BY <1>1, <1>4, <1>5, <1>6, <1>7 DEF SoundNext

\* mm.c implements the allocator that mdriver.c checks: blocks are aligned, in the
\* heap and apart, and no call changes a block that it was not called for.
THEOREM AllocatorImplemented == SoundSpec => AllocatorSpec
<1>1. Init => Driver!Init
  BY DriverInit
<1>2. IInv /\ [SoundNext]_vars => [Driver!Next]_(Driver!vars)
  BY DriverStep
<1> QED
  BY <1>1, <1>2, HeapSound, PTL DEF SoundSpec, AllocatorSpec, Driver!Spec

===============================================================================
