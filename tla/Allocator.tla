----------------------------- MODULE Allocator -----------------------------
(***************************************************************************)
(* What the driver of the malloc lab (src/malloclab/mdriver.c) asks of an  *)
(* allocator, without chunks or lists.  The range list of the driver is    *)
(* the set of the blocks that are held.  MM implements this module.        *)
(***************************************************************************)
EXTENDS Integers

CONSTANTS Ids, Requests, lo

VARIABLES blocks, hi

vars == <<blocks, hi>>

none == [lo |-> 0, size |-> 0]

Init == blocks = [i \in Ids |-> none] /\ hi > lo

\* add_range: aligned, in the heap, apart from every other block
Fits(block, i) ==
  /\ block.lo % 8 = 0
  /\ block.lo >= lo /\ block.lo + block.size <= hi'
  /\ \A j \in {k \in Ids : k # i /\ blocks[k] # none} :
       \/ block.lo + block.size <= blocks[j].lo
       \/ blocks[j].lo + blocks[j].size <= block.lo

\* An allocation or a reallocation: the heap may grow
Give(i) == /\ hi' >= hi
           /\ blocks'[i].size \in Requests
           /\ Fits(blocks'[i], i)
           /\ blocks' = [blocks EXCEPT ![i] = blocks'[i]]

Take(i) == blocks[i] # none /\ blocks' = [blocks EXCEPT ![i] = none] /\ UNCHANGED hi

Next == \E i \in Ids : Give(i) \/ Take(i)

Spec == Init /\ [][Next]_vars

=============================================================================
