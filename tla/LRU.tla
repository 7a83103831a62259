-------------------------------- MODULE LRU --------------------------------
(***************************************************************************)
(* What a cache with E lines in each of its 2^s sets promises, without any *)
(* lists: the E blocks of a set that were used last are in the cache.      *)
(* CSim implements this module.                                            *)
(***************************************************************************)
EXTENDS Integers, FiniteSets

CONSTANTS Blocks,   \* block numbers
          s,        \* number of set index bits
          E         \* lines in a set

VARIABLES last,     \* when each block was used last, 0 if it never was
          hits, misses, evictions

vars == <<last, hits, misses, evictions>>

Init == /\ last = [x \in Blocks |-> 0]
        /\ hits = 0 /\ misses = 0 /\ evictions = 0

SameSet(x) == {y \in Blocks : y % 2^s = x % 2^s}

Resident(x) == /\ last[x] > 0
               /\ Cardinality({y \in SameSet(x) : last[y] > last[x]}) < E

Full(x) == Cardinality({y \in SameSet(x) : Resident(y)}) = E

Use(x) == last' = [last EXCEPT ![x] = hits + misses + 1]

Hit(x) == /\ Resident(x)
          /\ Use(x)
          /\ hits' = hits + 1
          /\ UNCHANGED <<misses, evictions>>

Miss(x) == /\ ~ Resident(x)
           /\ Use(x)
           /\ misses' = misses + 1
           /\ evictions' = IF Full(x) THEN evictions + 1 ELSE evictions
           /\ UNCHANGED hits

Next == \E x \in Blocks : Hit(x) \/ Miss(x)

Spec == Init /\ [][Next]_vars

=============================================================================
