------------------------------ MODULE CSimList ------------------------------
(***************************************************************************)
(* The cache simulator (src/cachelab/csim.c) with the lists it keeps: the  *)
(* lines of a set hang between two sentinels, head and tail, and a line is *)
(* unlinked and prepended by assignments to prev and next.  main parses    *)
(* its options, allocates the cache and simulates the trace.               *)
(***************************************************************************)
EXTENDS CacheShape, Sequences, SequencesExt, FiniteSetsExt

CONSTANTS Argvs,     \* command lines: sequences of options with their values
          Garbage    \* tags that a line may have before it is used

ASSUME GarbageAssumption == Garbage \subseteq Nat

null == none
head == 0
tail == E + 1
Lines == 1 .. E
Nodes == head .. tail

VARIABLES phase,     \* "main", "simulate" or "exited"
          cset,      \* the nodes of each set's list
          hit_count, miss_count, eviction_count,
          again,     \* the address of an M whose second access is to come
          last       \* when each block was used last (history)

counts == <<hit_count, miss_count, eviction_count>>
vars == <<phase, cset, counts, again, last>>

Accesses == hit_count + miss_count

-----------------------------------------------------------------------------
(* The lists. *)

unlink_line(list, line) ==
  LET after == list[line].next
      before == list[line].prev
  IN  [list EXCEPT ![after].prev = before, ![before].next = after]

\* Mutant: head_next->prev keeps its value
prepend_line_OneWay(list, line) ==
  [list EXCEPT ![line].prev = head, ![line].next = list[head].next, ![head].next = line]

prepend_line(list, line) ==
  LET head_next == list[head].next
  IN  [list EXCEPT ![line].prev = head, ![line].next = head_next,
                   ![head].next = line, ![head_next].prev = line]

add_line(list, line) == prepend_line([list EXCEPT ![line].valid = FALSE], line)

\* The tag of a new line, and of the sentinels, is whatever malloc returns
new_cset(garbage) ==
  LET empty == [n \in Nodes |-> [valid |-> FALSE, tag |-> garbage, prev |-> null, next |-> null]]
      added[i \in 0 .. E] ==
        IF i = 0 THEN [empty EXCEPT ![head].next = tail, ![tail].prev = head]
        ELSE add_line(added[i - 1], i)
  IN  added[E]

\* The nodes that a walk along next comes to, until it is at the tail
Walk(list) == LET at[k \in Nodes] ==
                    IF k = 0 THEN list[head].next
                    ELSE IF at[k - 1] = tail THEN tail ELSE list[at[k - 1]].next
              IN  at

Found(list, Wanted(_)) ==
  LET walk == Walk(list)
      hits == {k \in Nodes : walk[k] # tail /\ Wanted(list[walk[k]])}
  IN  IF hits = {} THEN null ELSE walk[Min(hits)]

\* Mutant: valid is not looked at
find_line_Any(list, tag) == Found(list, LAMBDA line : line.tag = tag)

find_line(list, tag) == Found(list, LAMBDA line : line.valid /\ line.tag = tag)

find_invalid(list) == Found(list, LAMBDA line : ~ line.valid)

-----------------------------------------------------------------------------
(* main. *)

\* What getopt finds in turn: a later option replaces an earlier one
Parsed(argv) ==
  FoldLeft(LAMBDA csim, arg : [csim EXCEPT ![arg.opt] = arg.val],
           [s |-> 0, E |-> 0, b |-> 0, t |-> 0, v |-> 0, h |-> 0], argv)

is_valid_input(csim) == csim.s > 0 /\ csim.E > 0 /\ csim.b > 0 /\ csim.t # 0

\* Options that are accepted give the cache its shape
ASSUME ShapeAssumption ==
  \A argv \in Argvs : LET csim == Parsed(argv)
                      IN  is_valid_input(csim) => <<csim.s, csim.E, csim.b>> = <<s, E, b>>

Init == /\ phase = "main" /\ cset = <<>>
        /\ hit_count = 0 /\ miss_count = 0 /\ eviction_count = 0
        /\ again = none
        /\ last = [x \in {addr \div 2^b : addr \in Addr} |-> 0]

\* -h and options that are not accepted print the help
main == /\ phase = "main"
        /\ \E argv \in Argvs :
             IF Parsed(argv).h = 0 /\ is_valid_input(Parsed(argv))
             THEN /\ phase' = "simulate"
                  /\ \E garbage \in Garbage : cset' = [x \in Sets |-> new_cset(garbage)]
             ELSE phase' = "exited" /\ UNCHANGED cset
        /\ UNCHANGED <<counts, again, last>>

-----------------------------------------------------------------------------
(* The simulation. *)

Moved(list, line) == prepend_line(unlink_line(list, line), line)

\* Mutant: the tag of the line is not set
Filled_NoTag(list, line, tag) == [list EXCEPT ![line].valid = TRUE]

Filled(list, line, tag) == [list EXCEPT ![line].valid = TRUE, ![line].tag = tag]

access_cache(addr) ==
  LET x == SetIdx(addr)
      cline == find_line(cset[x], Tag(addr))
      invalid == find_invalid(cset[x])
      victim == IF invalid = null THEN cset[x][tail].prev ELSE invalid
  IN  /\ Accesses < MaxAccesses
      /\ \/ /\ cline # null
            /\ cset' = [cset EXCEPT ![x] = Moved(@, cline)]
            /\ hit_count' = hit_count + 1
            /\ UNCHANGED <<miss_count, eviction_count>>
         \/ /\ cline = null
            /\ cset' = [cset EXCEPT ![x] = Moved(Filled(@, victim, Tag(addr)), victim)]
            /\ eviction_count' = eviction_count + (IF invalid = null THEN 1 ELSE 0)
            /\ miss_count' = miss_count + 1
            /\ UNCHANGED hit_count
      /\ last' = [last EXCEPT ![addr \div 2^b] = Accesses + 1]

\* One line of the trace; an I changes nothing
simulate(id, addr) == /\ phase = "simulate" /\ again = none
                      /\ access_cache(addr)
                      /\ again' = IF id = "M" THEN addr ELSE none
                      /\ UNCHANGED phase

\* The second access of an M
Modify == /\ phase = "simulate" /\ again # none
          /\ access_cache(again)
          /\ again' = none
          /\ UNCHANGED phase

EndOfTrace == /\ phase = "simulate" /\ again = none
              /\ phase' = "exited"
              /\ UNCHANGED <<cset, counts, again, last>>

Next == \/ main \/ Modify \/ EndOfTrace
        \/ \E id \in {"L", "S", "M"}, addr \in Addr : simulate(id, addr)

Spec == Init /\ [][Next]_vars

-----------------------------------------------------------------------------
(* Properties. *)

\* The lines of a set in the order of its list; a line not in use has no tag
InUse(line) == [valid |-> line.valid, tag |-> IF line.valid THEN line.tag ELSE none]
Listed == [x \in Sets |->
             IF cset = <<>> THEN [i \in Lines |-> [valid |-> FALSE, tag |-> none]]
             ELSE LET walk == Walk(cset[x])
                  IN  [i \in Lines |-> InUse(cset[x][walk[i - 1]])]]

Sim == INSTANCE CSim WITH cache <- Listed

\* The lines in use come first, each with a tag of its own: this is why
\* tail->prev (csim.c:316) is the line used least recently.
ListOrdered == Sim!ListOrdered

\* The second access of an M (csim.c:354) always hits.
ModifyHits == Sim!ModifyHits

\* The pointers implement the lists of CSim, in which a line moves to the
\* front, and through them a cache that keeps the blocks used last in each
\* set: every hit, miss and eviction is one of such a cache.
CacheSpec == Sim!Spec /\ Sim!LRUSpec

=============================================================================
