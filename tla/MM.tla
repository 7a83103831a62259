--------------------------------- MODULE MM ---------------------------------
(***************************************************************************)
(* The malloc package (src/malloclab/mm.c) on the simulated heap of        *)
(* memlib.c, called as mdriver.c does.  Memory is a function from the      *)
(* numbers of 4-byte words to integers, so that the fields of a chunk      *)
(* overlay user data and each other as in the 32-bit build:                *)
(*                                                                         *)
(*   p      prev_size; the last word of the chunk before while in use      *)
(*   p + 4  size, with VALID in bit 0 and PREV_INUSE in bit 1              *)
(*   p + 8  fd, or the first word of user data                             *)
(*   p + 12 bk                                                             *)
(*                                                                         *)
(* The routines are operators on a heap, a record of memory, top and brk,  *)
(* that return the heap they leave.                                        *)
(***************************************************************************)
EXTENDS Integers, Sequences, SequencesExt

CONSTANTS TOP_ALIGNMENT, PREPARED_SIZE,
          MIN_MIDDLE_SIZE, MIN_LARGE_SIZE, MIN_HUGE_SIZE,
          MAX_HEAP,
          Ids,          \* blocks of a trace, at most this many at a time
          Requests      \* sizes asked for, whole words

ASSUME AlignmentAssumption ==
  \A n \in {TOP_ALIGNMENT, PREPARED_SIZE, MAX_HEAP} : n \in Nat \ {0} /\ n % 8 = 0
\* A free chunk holds fd and bk, and mm_init gets its first top chunk
ASSUME RoomAssumption == PREPARED_SIZE >= 16 /\ TOP_ALIGNMENT <= MAX_HEAP
ASSUME IdsAssumption == Ids \subseteq 1 .. 255
\* A request for up to 4 bytes would get a chunk without room for fd and bk
ASSUME RequestsAssumption == Requests \subseteq {4 * n : n \in 2 .. MAX_HEAP}

NULL == 0

\* The five bins are words of their own, in front of the heap
UNSORTED == 16
SMALL == 20
MIDDLE == 24
LARGE == 28
HUGE == 32
Bins == {UNSORTED, SMALL, MIDDLE, LARGE, HUGE}

\* Mutant: memlib's buffer is not aligned
mem_heap_lo_Odd == 44

mem_heap_lo == 40
Words == 4 .. (mem_heap_lo + MAX_HEAP) \div 4 - 1
word(p) == p \div 4

\* Where a chunk can start
Cells == {mem_heap_lo + 8 * k : k \in 0 .. MAX_HEAP \div 8 - 1}

VARIABLES mem, top, brk,
          blocks,        \* the blocks that the user holds
          preserved      \* whether realloc kept the data, as mdriver checks

vars == <<mem, top, brk, blocks, preserved>>

heap == [m |-> mem, top |-> top, brk |-> brk]
Store(h) == mem' = h.m /\ top' = h.top /\ brk' = h.brk

-----------------------------------------------------------------------------
(* The macros. *)

Align(n, to) == ((n + to - 1) \div to) * to

size2chunksize(n) == Align(n - 4, 8) + 8
mem2chunk(ptr) == ptr - 8
chunk2mem(p) == p + 8

prev_size(h, p) == h.m[word(p)]
size(h, p) == h.m[word(p) + 1]
is_valid(h, p) == size(h, p) % 2 = 1
prev_inuse(h, p) == (size(h, p) \div 2) % 2 = 1
flags(h, p) == size(h, p) % 8
chunksize(h, p) == size(h, p) - flags(h, p)
next_chunk(h, p) == p + chunksize(h, p)
fd(h, p) == h.m[word(p) + 2]
bk(h, p) == h.m[word(p) + 3]

set_prev_size(h, p, v) == [h EXCEPT !.m[word(p)] = v]
set_size(h, p, v) == [h EXCEPT !.m[word(p) + 1] = v]
set_fd(h, p, v) == [h EXCEPT !.m[word(p) + 2] = v]
set_bk(h, p, v) == [h EXCEPT !.m[word(p) + 3] = v]

set_valid(h, p) == IF is_valid(h, p) THEN h ELSE set_size(h, p, size(h, p) + 1)
clear_valid(h, p) == IF is_valid(h, p) THEN set_size(h, p, size(h, p) - 1) ELSE h
set_prev_inuse(h, p) == IF prev_inuse(h, p) THEN h ELSE set_size(h, p, size(h, p) + 2)
clear_prev_inuse(h, p) == IF prev_inuse(h, p) THEN set_size(h, p, size(h, p) - 2) ELSE h

-----------------------------------------------------------------------------
(* The bins. *)

calculate_bin(n) == IF n < MIN_MIDDLE_SIZE THEN SMALL
                    ELSE IF n < MIN_LARGE_SIZE THEN MIDDLE
                    ELSE IF n < MIN_HUGE_SIZE THEN LARGE
                    ELSE HUGE

bin_head(h, bin) == h.m[word(bin)]

\* The chunk after one of a list, and NULL at its end
following(h, p) == IF p = NULL THEN NULL ELSE fd(h, p)

\* The chunks of a list, from the first: at most one in each cell
Chain(h, bin) ==
  LET at[k \in 0 .. MAX_HEAP \div 8] == IF k = 0 THEN bin_head(h, bin) ELSE following(h, at[k - 1])
      n == CHOOSE i \in 0 .. MAX_HEAP \div 8 : at[i] = NULL /\ \A j \in 0 .. i - 1 : at[j] # NULL
  IN  [k \in 1 .. n |-> at[k - 1]]

\* Mutant: a chunk fits without its header and the word that it borrows
Smaller_Loose(h, list, n) ==
  LET fits == {k \in DOMAIN list : chunksize(h, list[k]) + 16 >= n}
  IN  IF fits = {} THEN Len(list) ELSE (CHOOSE k \in fits : \A j \in fits : k <= j) - 1

\* How many chunks at the start of a list are too small
Smaller(h, list, n) ==
  LET fits == {k \in DOMAIN list : chunksize(h, list[k]) >= n}
  IN  IF fits = {} THEN Len(list) ELSE (CHOOSE k \in fits : \A j \in fits : k <= j) - 1

\* The next chunk, if there is one, gets p as its bk
link_back(h, next, p) == IF next = NULL THEN h ELSE set_bk(h, next, p)

insert_chunk(h, cur, p, next) ==
  link_back(set_fd(set_bk(set_fd(h, p, next), p, cur), cur, p), next, p)

\* Sorted by size
append_chunk(h, bin, p) ==
  LET list == Chain(h, bin)
      k == Smaller(h, list, chunksize(h, p))
  IN  insert_chunk(h, IF k = 0 THEN mem2chunk(bin) ELSE list[k], p,
                   IF k = Len(list) THEN NULL ELSE list[k + 1])

append_chunk_unsorted(h, p) == insert_chunk(h, mem2chunk(UNSORTED), p, bin_head(h, UNSORTED))

\* Mutant: the next chunk keeps its bk
unlink_chunk_OneWay(h, p) == set_fd(h, bk(h, p), fd(h, p))

unlink_chunk(h, p) == link_back(set_fd(h, bk(h, p), fd(h, p)), fd(h, p), bk(h, p))

find_chunk_from_bin(h, bin, n) ==
  LET list == Chain(h, bin)
      k == Smaller(h, list, n)
  IN  IF k = Len(list) THEN NULL ELSE list[k + 1]

\* A chunk of the unsorted bin goes to the bin of its size
sort_chunk(h, p) == append_chunk(unlink_chunk(h, p), calculate_bin(chunksize(h, p)), p)

\* The chunks before the first that fits are sorted into their bins
find_chunk_from_unsorted(h, n) ==
  LET list == Chain(h, UNSORTED)
      sorted[k \in 0 .. Len(list)] == IF k = 0 THEN h ELSE sort_chunk(sorted[k - 1], list[k])
  IN  [h |-> sorted[Smaller(h, list, n)], p |-> find_chunk_from_bin(h, UNSORTED, n)]

\* The sorted bins from that of the size on, then the unsorted one
find_chunk(h, n) ==
  LET from == calculate_bin(n)
      fits == {bin \in Bins : bin >= from /\ find_chunk_from_bin(h, bin, n) # NULL}
      bin == CHOOSE b \in fits : \A other \in fits : b <= other
  IN  IF fits # {} THEN [h |-> h, p |-> find_chunk_from_bin(h, bin, n)]
      ELSE find_chunk_from_unsorted(h, n)

-----------------------------------------------------------------------------
(* Splitting and merging. *)

\* Mutant: PREV_INUSE stays
update_prev_info_Flag(h, p) ==
  IF next_chunk(h, p) < h.brk - 1 THEN set_prev_size(h, next_chunk(h, p), chunksize(h, p)) ELSE h

update_prev_info(h, p) ==
  LET next == next_chunk(h, p)
  IN  IF next < h.brk - 1
      THEN clear_prev_inuse(set_prev_size(h, next, chunksize(h, p)), next)
      ELSE h

\* The remainder is NULL when it would be too small
split_chunk(h, p, n) ==
  LET rest == p + n
      cut == set_size(h, p, n + flags(h, p))
      made == set_size(set_prev_size(cut, rest, n), rest, chunksize(h, p) - n)
  IN  IF chunksize(h, p) <= n + 16 THEN [h |-> h, rest |-> NULL]
      ELSE [h |-> update_prev_info(made, rest), rest |-> rest]

\* How much extend_top_chunk asks mem_sbrk for
RequiredFor(h, n) == Align(n + 32 - chunksize(h, h.top), TOP_ALIGNMENT)

\* mem_sbrk fails beyond the maximum heap
CanExtend(h, n) == h.brk + RequiredFor(h, n) <= mem_heap_lo + MAX_HEAP

extend_top_chunk(h, n) ==
  [set_size(h, h.top, size(h, h.top) + RequiredFor(h, n)) EXCEPT !.brk = @ + RequiredFor(h, n)]

HasTop(h, n) == chunksize(h, h.top) >= n + 32
Grown(h, n) == IF HasTop(h, n) THEN h ELSE extend_top_chunk(h, n)

\* The chunk p that was cut off, what remains is the top
Cut(cut, p) == [h |-> [cut.h EXCEPT !.top = cut.rest], p |-> p]

split_top_chunk(h, n) ==
  IF HasTop(h, n) \/ CanExtend(h, n)
  THEN Cut(split_chunk(Grown(h, n), h.top, n), h.top)
  ELSE [h |-> h, p |-> NULL]

\* A free chunk of PREPARED_SIZE is cut off first
Prepare(cut, p) == append_chunk_unsorted(clear_prev_inuse(cut.h, cut.rest), p)

split_top_chunk_prepared(h, n) ==
  LET chunk == h.top + PREPARED_SIZE
      prepared == Prepare(split_chunk(Grown(h, n + PREPARED_SIZE), h.top, PREPARED_SIZE), h.top)
  IN  IF HasTop(h, n + PREPARED_SIZE) \/ CanExtend(h, n + PREPARED_SIZE)
      THEN Cut(split_chunk(prepared, chunk, n), chunk)
      ELSE [h |-> h, p |-> NULL]

\* The bin is that of the chunk's new size, not of the remainder's
append_remainder(cut, p) ==
  IF cut.rest = NULL THEN cut.h
  ELSE append_chunk(set_prev_inuse(cut.h, cut.rest), calculate_bin(chunksize(cut.h, p)), cut.rest)

split_and_append(h, p, n) == append_remainder(split_chunk(h, p, n), p)

\* A chunk gets the size of the next one, too
Extend(h, p, next) == set_size(h, p, size(h, p) + chunksize(h, next))

MergeNext(h, p) ==
  LET next == next_chunk(h, p)
  IN  IF is_valid(h, next) THEN h
      ELSE Extend(IF next = h.top THEN h ELSE unlink_chunk(h, next), p, next)

MergePrev(h, p) ==
  LET prev == p - prev_size(h, p)
  IN  IF prev_inuse(h, p) THEN [h |-> h, p |-> p]
      ELSE [h |-> Extend(unlink_chunk(h, prev), prev, p), p |-> prev]

\* Mutant: top stays where it is
TopIfMerged_Stale(merged, next) == merged

TopIfMerged(merged, next) ==
  IF next = merged.h.top THEN [merged EXCEPT !.h.top = merged.p] ELSE merged

coalesce_chunk(h, p) == TopIfMerged(MergePrev(MergeNext(h, p), p), next_chunk(h, p))

-----------------------------------------------------------------------------
(* The interface. *)

\* The chunk found is taken out of its bin, or one is cut from the top
Take(found, n) ==
  IF found.p = NULL THEN split_top_chunk_prepared(found.h, n)
  ELSE [h |-> split_and_append(unlink_chunk(found.h, found.p), found.p, n), p |-> found.p]

InUse(h, p) == set_prev_inuse(set_valid(h, p), next_chunk(h, p))

Allocated(got) ==
  IF got.p = NULL THEN [h |-> got.h, ptr |-> NULL]
  ELSE [h |-> InUse(got.h, got.p), ptr |-> chunk2mem(got.p)]

mm_malloc(h, n) ==
  LET chunk_size == size2chunksize(n)
  IN  Allocated(Take(find_chunk(h, chunk_size), chunk_size))

Unused(h, p) == update_prev_info(clear_valid(h, p), p)

Freed(merged) ==
  IF merged.p = merged.h.top THEN Unused(merged.h, merged.p)
  ELSE append_chunk_unsorted(Unused(merged.h, merged.p), merged.p)

mm_free(h, ptr) == Freed(coalesce_chunk(h, mem2chunk(ptr)))

\* The next chunk becomes part of the chunk
Absorb(h, p, next) ==
  LET grown == Extend(h, p, next)
      after == next_chunk(grown, p)
  IN  set_prev_inuse(set_prev_size(grown, after, chunksize(grown, p)), after)

\* Whether realloc_chunk grows the block into a free chunk after it
GrowsIntoFree(h, ptr, n) ==
  LET p == mem2chunk(ptr)
      next == next_chunk(h, p)
  IN  /\ chunksize(h, p) < size2chunksize(n)
      /\ next # h.top /\ ~ is_valid(h, next)
      /\ chunksize(h, next) >= size2chunksize(n) - chunksize(h, p)

Payload(block) == word(block.lo) .. word(block.lo + block.size) - 1

\* memcpy of n bytes; what is read behind the old block does not matter
Copy(h, from, to, n) ==
  LET source(w) == w - word(to) + word(from)
  IN  [h EXCEPT !.m = [w \in Words |-> IF w \in Payload([lo |-> to, size |-> n]) /\ source(w) \in Words
                                       THEN h.m[source(w)] ELSE h.m[w]]]

\* Mutant: the old block is freed before it is read
Move_FreeFirst(new, ptr, n) ==
  IF new.ptr = NULL THEN new
  ELSE [new EXCEPT !.h = Copy(mm_free(new.h, ptr), ptr, new.ptr, n)]

Move(new, ptr, n) ==
  IF new.ptr = NULL THEN new
  ELSE [new EXCEPT !.h = mm_free(Copy(new.h, ptr, new.ptr, n), ptr)]

GrowIntoTop(cut, ptr) ==
  IF cut.p = NULL THEN [h |-> cut.h, ptr |-> NULL]
  ELSE [h |-> Absorb(cut.h, mem2chunk(ptr), cut.p), ptr |-> ptr]

realloc_chunk(h, ptr, n) ==
  LET p == mem2chunk(ptr)
      next == next_chunk(h, p)
      required == size2chunksize(n) - chunksize(h, p)
  IN  IF next = h.top THEN GrowIntoTop(split_top_chunk(h, required), ptr)
      ELSE IF GrowsIntoFree(h, ptr, n)
      THEN [h |-> Absorb(split_and_append(h, next, required), p, next), ptr |-> ptr]
      ELSE Move(mm_malloc(h, n), ptr, n)

\* For a block and a size that are not 0, which mm_malloc and mm_free handle
mm_realloc(h, ptr, n) ==
  LET p == mem2chunk(ptr)
  IN  IF chunksize(h, p) >= size2chunksize(n)
      THEN [h |-> split_and_append(h, p, size2chunksize(n)), ptr |-> ptr]
      ELSE realloc_chunk(h, ptr, n)

-----------------------------------------------------------------------------
(* The checker, which a user may call before each routine. *)

\* What is wrong with a chunk of a bin, if anything
check_chunk(h, p) ==
  LET next == next_chunk(h, p)
  IN  IF next > h.brk - 1 \/ p < mem_heap_lo THEN "not in heap area"
      ELSE IF is_valid(h, p) THEN "valid free chunk"
      ELSE IF ~ prev_inuse(h, p) \/ ~ is_valid(h, next) THEN "not merged"
      ELSE IF prev_size(h, next) # chunksize(h, p) THEN "wrong prev_size"
      ELSE "sound"

\* The code stops at the first chunk that is not sound
check_bin(h, bin) == {check_chunk(h, p) : p \in ToSet(Chain(h, bin))}

mm_check(h) == (UNION {check_bin(h, bin) : bin \in Bins}) \ {"sound"}

-----------------------------------------------------------------------------
(* The traces of mdriver. *)

none == [lo |-> NULL, size |-> 0]
Held == {i \in Ids : blocks[i] # none}

\* mm_init after mem_reset_brk
Init == /\ mem = [w \in Words |-> IF w = word(mem_heap_lo) + 1 THEN TOP_ALIGNMENT + 2 ELSE 0]
        /\ top = mem_heap_lo
        /\ brk = mem_heap_lo + TOP_ALIGNMENT
        /\ blocks = [i \in Ids |-> none]
        /\ preserved = TRUE

\* memset with the index of the block, four bytes at a time
Fill(i) == i * 16843009
Filled(m, i, block) == [w \in Words |-> IF w \in Payload(block) THEN Fill(i) ELSE m[w]]

\* An index is used again once its block is freed
FirstUnused == LET unused == Ids \ Held
               IN  IF unused = {} THEN NULL ELSE CHOOSE i \in unused : \A j \in unused : i <= j

\* The user has block i at ptr now
Give(i, r, n) ==
  LET block == [lo |-> r.ptr, size |-> n]
  IN  /\ mem' = Filled(r.h.m, i, block) /\ top' = r.h.top /\ brk' = r.h.brk
      /\ blocks' = [blocks EXCEPT ![i] = block]

Malloc(i, n) ==
  /\ i = FirstUnused
  /\ \E r \in {mm_malloc(heap, n)} :
       IF r.ptr = NULL THEN Store(r.h) /\ UNCHANGED blocks ELSE Give(i, r, n)
  /\ UNCHANGED preserved

Free(i) ==
  /\ blocks[i] # none
  /\ \E h \in {mm_free(heap, blocks[i].lo)} : Store(h)
  /\ blocks' = [blocks EXCEPT ![i] = none]
  /\ UNCHANGED preserved

\* What mdriver compares: the data of the smaller of the two blocks
Compared(ptr, block, n) == Payload([lo |-> ptr, size |-> IF n < block.size THEN n ELSE block.size])

Realloc(i, n) ==
  /\ blocks[i] # none
  /\ \E r \in {mm_realloc(heap, blocks[i].lo, n)} :
       IF r.ptr = NULL
       THEN Store(r.h) /\ UNCHANGED <<blocks, preserved>>
       ELSE /\ Give(i, r, n)
            /\ preserved' = \A w \in Compared(r.ptr, blocks[i], n) : r.h.m[w] = Fill(i)

Next == \E i \in Ids : Free(i) \/ \E n \in Requests : Malloc(i, n) \/ Realloc(i, n)

Spec == Init /\ [][Next]_vars

\* Without the realloc that leaves a chunk of its block in a bin
SoundRealloc(i, n) == blocks[i] # none /\ ~ GrowsIntoFree(heap, blocks[i].lo, n) /\ Realloc(i, n)

SoundNext == \E i \in Ids : Free(i) \/ \E n \in Requests : Malloc(i, n) \/ SoundRealloc(i, n)

SoundSpec == Init /\ [][SoundNext]_vars

-----------------------------------------------------------------------------
(* Properties. *)

\* The chunks that one meets from the start of the heap on
Chunks ==
  LET from[p \in Cells] ==
        LET next == next_chunk(heap, p)
        IN  {p} \union IF p < next /\ next < brk /\ next \in Cells THEN from[next] ELSE {}
  IN  from[mem_heap_lo]

\* The chunks, end to end, are the whole heap: the last is the top, and those
\* in use are exactly the user's, each large enough (mm.c and the word of the
\* next chunk that it borrows).  Its end moves in steps of TOP_ALIGNMENT.
HeapTiled ==
  LET chunks == Chunks
  IN  /\ (brk - mem_heap_lo) % TOP_ALIGNMENT = 0 /\ brk <= mem_heap_lo + MAX_HEAP
      /\ top \in chunks /\ next_chunk(heap, top) = brk
      /\ \A p \in chunks \ {top} : next_chunk(heap, p) \in chunks
      /\ {p \in chunks : is_valid(heap, p)} = {mem2chunk(blocks[i].lo) : i \in Held}
      /\ \A i \in Held : chunksize(heap, mem2chunk(blocks[i].lo)) >= blocks[i].size + 4

\* PREV_INUSE says whether the chunk before is in use, and prev_size how
\* large it is when it is not: coalesce_chunk believes both.  mm_check has
\* nothing to say but that a remainder of realloc was not merged.
BoundaryTags ==
  /\ \A p \in Chunks \ {top} :
       LET next == next_chunk(heap, p)
       IN  /\ prev_inuse(heap, next) <=> is_valid(heap, p)
           /\ ~ is_valid(heap, p) => prev_size(heap, next) = chunksize(heap, p)
  /\ mm_check(heap) \subseteq {"not merged"}

\* The lists hold every free chunk but the top once, linked both ways, and
\* all but the unsorted one are sorted by size, as find_chunk_from_bin needs
\* to find the best fit.
BinsExact ==
  LET list == [bin \in Bins |-> Chain(heap, bin)]
      free == {p \in Chunks \ {top} : ~ is_valid(heap, p)}
  IN  /\ \A p \in free : \E bin \in Bins : Contains(list[bin], p)
      /\ \A bin \in Bins : \A k \in DOMAIN list[bin] :
           /\ list[bin][k] \in free
           /\ bk(heap, list[bin][k]) = IF k = 1 THEN mem2chunk(bin) ELSE list[bin][k - 1]
           /\ bin # UNSORTED /\ k > 1 =>
                chunksize(heap, list[bin][k - 1]) <= chunksize(heap, list[bin][k])

\* What a user wrote to a block stays there while other blocks are
\* allocated, moved and freed around it, the last word included, which is
\* the prev_size of the next chunk.
DataKept == \A i \in Held : \A w \in Payload(blocks[i]) : mem[w] = Fill(i)

\* A block that realloc makes larger, where it is or elsewhere, has the data
\* of the old one: the check of eval_mm_valid.
ReallocKeeps ==
  [][\A i \in Ids : blocks[i] # none /\ blocks'[i].size > blocks[i].size => preserved']_vars

Driver == INSTANCE Allocator WITH lo <- mem_heap_lo, hi <- brk

\* Every block that mm.c returns passes the checks of add_range, and no call
\* moves, shortens or drops a block that it was not called for.
AllocatorSpec == Driver!Spec

\* mm.c:582 says that mm_check checks 'whether freed chunk is in heap area':
\* no bin holds a chunk whose header a user's block has overwritten.
FreedInHeapArea == "not in heap area" \notin mm_check(heap)

=============================================================================
