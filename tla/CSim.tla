-------------------------------- MODULE CSim --------------------------------
(***************************************************************************)
(* The cache simulator (src/cachelab/csim.c), without pointers: the list   *)
(* of the lines of a set is the function from positions to lines, and what *)
(* the code does to it is to take a line out and to put it first again.    *)
(* Module CSimList, which has the pointers, implements this one.  Each     *)
(* access is a step; the size of the access is not used by the code.       *)
(***************************************************************************)
EXTENDS CacheShape, FiniteSets

VARIABLES cache,     \* the lines of each set, the one used last first
          hit_count, miss_count, eviction_count,
          again,     \* the address of an M whose second access is to come
          last       \* when each block was used last (history)

counts == <<hit_count, miss_count, eviction_count>>
vars == <<cache, counts, again, last>>

Accesses == hit_count + miss_count

\* alloc_cache, new_cset, add_line: the tag of a new line is not initialised
Init == /\ cache \in [Sets -> [Positions -> [valid : {FALSE}, tag : {none}]]]
        /\ hit_count = 0 /\ miss_count = 0 /\ eviction_count = 0
        /\ again = none
        /\ last = [x \in {addr \div 2^b : addr \in Addr} |-> 0]

-----------------------------------------------------------------------------
\* The first position of a set of positions
First(S) == IF S = {} THEN none ELSE CHOOSE i \in S : \A j \in S : i <= j

find_line(cset, tag) == First({i \in Positions : cset[i].valid /\ cset[i].tag = tag})
find_invalid(cset) == First({i \in Positions : ~ cset[i].valid})

\* unlink_line and prepend_line of the i-th line, whose content is line
ToFront(cset, i, line) ==
  [j \in Positions |-> IF j = 1 THEN line
                       ELSE IF j <= i THEN cset[j - 1]
                       ELSE cset[j]]

Touch(addr) == last' = [last EXCEPT ![addr \div 2^b] = Accesses + 1]

Hit(addr, cset) ==
  LET i == find_line(cset, Tag(addr))
  IN  /\ i # none
      /\ cache' = [cache EXCEPT ![SetIdx(addr)] = ToFront(cset, i, cset[i])]
      /\ hit_count' = hit_count + 1
      /\ UNCHANGED <<miss_count, eviction_count>>

\* The first line that is not valid, or else tail->prev
Victim(cset) == IF find_invalid(cset) = none THEN E ELSE find_invalid(cset)

Filled(line, tag) == [valid |-> TRUE, tag |-> tag]

CountMiss(cset) ==
  /\ miss_count' = miss_count + 1
  /\ eviction_count' = eviction_count + (IF find_invalid(cset) = none THEN 1 ELSE 0)

Miss(addr, cset) ==
  /\ find_line(cset, Tag(addr)) = none
  /\ cache' = [cache EXCEPT ![SetIdx(addr)] =
                 ToFront(cset, Victim(cset), Filled(cset[Victim(cset)], Tag(addr)))]
  /\ CountMiss(cset)
  /\ UNCHANGED hit_count

access_cache(addr) ==
  /\ Accesses < MaxAccesses
  /\ LET cset == cache[SetIdx(addr)]
     IN  Hit(addr, cset) \/ Miss(addr, cset)
  /\ Touch(addr)

\* One line of the trace; an I changes nothing
simulate(id, addr) == /\ again = none
                      /\ access_cache(addr)
                      /\ again' = IF id = "M" THEN addr ELSE none

\* The second access of an M
Modify == /\ again # none
          /\ access_cache(again)
          /\ again' = none

Next == \/ \E id \in {"L", "S", "M"}, addr \in Addr : simulate(id, addr)
        \/ Modify

Spec == Init /\ [][Next]_vars

-----------------------------------------------------------------------------
Line == [valid : {FALSE}, tag : {none}] \cup [valid : {TRUE}, tag : Tags]

\* The type invariant.
TypeOK == /\ cache \in [Sets -> [Positions -> Line]]
          /\ hit_count \in Nat /\ miss_count \in Nat /\ eviction_count \in Nat
          /\ again \in Addr \cup {none}
          /\ last \in [{addr \div 2^b : addr \in Addr} -> 0 .. Accesses]

\* The lines in use come first, each with a tag of its own: this is why
\* tail->prev (csim.c:316) is the line used least recently.
ListOrdered ==
  \A x \in Sets : \A i, j \in Positions :
    i < j /\ cache[x][j].valid => cache[x][i].valid /\ cache[x][i].tag # cache[x][j].tag

\* The line of an M's first access is the first of its set when the second
\* access comes (part of the inductive invariant).
AgainFirst == again # none => LET line == cache[SetIdx(again)][1]
                              IN  line.valid /\ line.tag = Tag(again)

\* The second access of an M (csim.c:354) always hits.
ModifyHits == [][again # none => hit_count' = hit_count + 1]_vars

\* The simulator hits, misses and evicts as a cache that keeps the blocks
\* used last in each set does.
Abstract == INSTANCE LRU WITH Blocks <- {addr \div 2^b : addr \in Addr},
                              hits <- hit_count, misses <- miss_count,
                              evictions <- eviction_count
LRUSpec == Abstract!Spec

=============================================================================
