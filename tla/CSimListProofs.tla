--------------------------- MODULE CSimListProofs ---------------------------
(***************************************************************************)
(* The pointers of CSimList implement the lists of CSim, for every trace   *)
(* and every shape of the cache, so that what holds of the lists holds of  *)
(* the pointers: an order of the nodes, the sentinels at its ends, follows *)
(* next and prev, and what the code does to a list it does to that order.  *)
(* Of the lists: they stay ordered, the second access of an M hits, and    *)
(* every hit, miss and eviction is one of a cache that keeps the blocks    *)
(* used last in each set (LRU).                                            *)
(***************************************************************************)
EXTENDS CSimList, WellFoundedInduction, FunctionTheorems, FiniteSetTheorems, TLAPS

\* Every nonempty set of naturals has a least one.
LEMMA LeastNatural ==
  ASSUME NEW S, S \subseteq Nat, S # {}
  PROVE  \E n \in S : \A m \in S : n <= m
<1> DEFINE R == OpToRel(<, Nat)
<1>1. IsWellFoundedOn(R, Nat)
  BY NatLessThanWellFounded
<1>2. PICK n \in S : \A m \in S : ~ (<<m, n>> \in R)
  BY <1>1, WFMin, Zenon
<1>3. \A m \in S : ~ (m < n)
  BY <1>2 DEF OpToRel
<1> QED
  BY <1>3

\* A struct cache_line, where null and the nodes are the pointers
Node == [valid : BOOLEAN, tag : Nat, prev : Nodes \cup {null}, next : Nodes \cup {null}]

\* The nodes of the list in their order, the sentinels included
Chained(list, order) ==
  /\ list \in [Nodes -> Node] /\ order \in [Nodes -> Nodes]
  /\ order[head] = head /\ order[tail] = tail
  /\ \A j, k \in Nodes : order[j] = order[k] => j = k
  /\ \A j, k \in Nodes : k = j + 1 => /\ list[order[j]].next = order[k]
                                      /\ list[order[k]].prev = order[j]

\* A walk finds the nodes in their order.
LEMMA WalkInOrder ==
  ASSUME NEW list, NEW order, Chained(list, order)
  PROVE  Walk(list) = [k \in Nodes |-> IF k = tail THEN tail ELSE order[k + 1]]
<1> DEFINE Step(f) == [k \in Nodes |-> IF k = 0 THEN list[head].next
                                       ELSE IF f[k - 1] = tail THEN tail ELSE list[f[k - 1]].next]
           walk == [k \in Nodes |-> IF k = tail THEN tail ELSE order[k + 1]]
<1>1. E \in Nat \ {0} /\ Nodes = 0 .. E + 1 /\ head = 0 /\ tail = E + 1
  BY InputAssumption DEF Nodes, head, tail
<1>2. /\ order \in [Nodes -> Nodes] /\ order[0] = 0 /\ order[E + 1] = E + 1
      /\ \A k \in 0 .. E : order[k] # E + 1 /\ list[order[k]].next = order[k + 1]
  <2>1. ASSUME NEW k \in 0 .. E
        PROVE  order[k] # E + 1 /\ list[order[k]].next = order[k + 1]
    <3>1. k \in Nodes /\ k + 1 \in Nodes /\ k # E + 1 /\ E + 1 \in Nodes
      BY <1>1
    <3> QED
      BY <1>1, <3>1 DEF Chained
  <2> QED
    BY <1>1, <2>1 DEF Chained
<1>3. Step(walk) = walk
  <2>1. ASSUME NEW k \in Nodes PROVE Step(walk)[k] = walk[k]
    <3>1. CASE k = 0
      BY <1>1, <1>2, <3>1
    <3>2. CASE k \in 1 .. E
      BY <1>1, <1>2, <3>2, SMTT(60)
    <3>3. CASE k = E + 1
      BY <1>1, <1>2, <3>3
    <3> QED
      BY <1>1, <3>1, <3>2, <3>3
  <2> QED
    BY <2>1
<1>4. ASSUME NEW f, f = Step(f)
      PROVE  f = walk
  <2> DEFINE Wrong == {k \in Nodes : f[k] # walk[k]}
  <2>1. ASSUME Wrong # {} PROVE FALSE
    <3>1. Wrong \subseteq Nat
      BY <1>1
    <3>2. PICK k \in Wrong : \A j \in Wrong : k <= j
      BY <2>1, <3>1, LeastNatural
    <3>3. k \in Nodes /\ f[k] # walk[k]
      BY <3>2
    <3>4. k # 0
      BY <1>1, <1>2, <1>3, <1>4, <3>3
    <3>5. k - 1 \in Nodes /\ k - 1 \notin Wrong
      BY <1>1, <3>2, <3>4
    <3>6. f[k - 1] = walk[k - 1]
      BY <3>5
    <3>7. Step(f)[k] = Step(walk)[k]
      BY <3>3, <3>4, <3>6
    <3> QED
      BY <1>3, <1>4, <3>3, <3>7
  <2>2. DOMAIN f = Nodes /\ f = [k \in Nodes |-> f[k]]
    BY <1>4
  <2> QED
    BY <2>1, <2>2
<1>5. Walk(list) = CHOOSE f : f = Step(f)
  BY DEF Walk
<1> HIDE DEF Step, walk
<1>6. Walk(list) = walk
  BY <1>3, <1>4, <1>5
<1> QED
  BY <1>6 DEF walk

\* What a search of the list returns: the first node of those it looks for.
FirstOf(order, S) == IF S = {} THEN null ELSE order[CHOOSE i \in S : \A j \in S : i <= j]

LEMMA SearchInOrder ==
  ASSUME NEW list, NEW order, Chained(list, order)
  PROVE  /\ \A tag : find_line(list, tag) =
              FirstOf(order, {k \in Positions : list[order[k]].valid /\ list[order[k]].tag = tag})
         /\ find_invalid(list) = FirstOf(order, {k \in Positions : ~ list[order[k]].valid})
<1>1. E \in Nat \ {0} /\ Nodes = 0 .. E + 1 /\ head = 0 /\ tail = E + 1 /\ Positions = 1 .. E
  BY InputAssumption DEF Nodes, head, tail, Positions
<1>2. /\ order \in [Nodes -> Nodes] /\ order[E + 1] = E + 1
      /\ \A k \in Positions : order[k] # tail
  BY <1>1 DEF Chained
<1> DEFINE walk == [k \in Nodes |-> IF k = tail THEN tail ELSE order[k + 1]]
<1>3. Walk(list) = walk
  BY WalkInOrder
<1>4. ASSUME NEW P, P \subseteq Positions
      PROVE  LET hits == {k \in Nodes : walk[k] # tail /\ k + 1 \in P}
             IN  (IF hits = {} THEN null ELSE walk[Min(hits)]) = FirstOf(order, P)
  <2> DEFINE hits == {k \in Nodes : walk[k] # tail /\ k + 1 \in P}
  <2>1. hits \subseteq Nat /\ P \subseteq Nat
    BY <1>1, <1>4
  <2>2. \A k : k \in hits <=> k + 1 \in P /\ k \in Nat
    BY <1>1, <1>2, <1>4, SMTT(60)
  <2>3. CASE P = {}
    BY <2>2, <2>3 DEF FirstOf
  <2>4. CASE P # {}
    <3>1. PICK i \in P : \A j \in P : i <= j
      BY <2>1, <2>4, LeastNatural
    <3>2. i = CHOOSE n \in P : \A j \in P : n <= j
      <4> DEFINE c == CHOOSE n \in P : \A j \in P : n <= j
      <4>1. c \in P /\ \A j \in P : c <= j
        BY <3>1
      <4> HIDE DEF c
      <4>2. i <= c /\ c <= i /\ i \in Nat /\ c \in Nat
        BY <2>1, <3>1, <4>1
      <4>3. i = c
        BY <4>2
      <4> QED
        BY <4>3 DEF c
    <3>3. i - 1 \in hits /\ \A k \in hits : i - 1 <= k
      <4>1. i \in 1 .. E
        BY <1>1, <1>4, <3>1
      <4>2. i - 1 \in Nat /\ (i - 1) + 1 = i
        BY <1>1, <4>1
      <4>3. \A k \in hits : k \in Nat /\ i <= k + 1
        BY <2>2, <3>1
      <4>4. i - 1 \in hits
        BY <2>2, <3>1, <4>2
      <4> HIDE DEF hits
      <4>5. \A k \in hits : i - 1 <= k
        BY <4>1, <4>3
      <4> QED
        BY <4>4, <4>5
    <3>4. Min(hits) = i - 1
      BY <2>1, <3>3 DEF Min
    <3>5. walk[i - 1] = order[i]
      BY <1>1, <1>4, <3>1
    <3> QED
      BY <2>4, <3>2, <3>3, <3>4, <3>5 DEF FirstOf
  <2> QED
    BY <2>3, <2>4
<1> HIDE DEF walk
<1>5. ASSUME NEW tag
      PROVE  find_line(list, tag) =
              FirstOf(order, {k \in Positions : list[order[k]].valid /\ list[order[k]].tag = tag})
  <2> DEFINE P == {k \in Positions : list[order[k]].valid /\ list[order[k]].tag = tag}
             hits == {k \in Nodes : walk[k] # tail /\ list[walk[k]].valid /\ list[walk[k]].tag = tag}
  <2>1. find_line(list, tag) = IF hits = {} THEN null ELSE walk[Min(hits)]
    BY <1>3 DEF find_line, Found
  <2>2. hits = {k \in Nodes : walk[k] # tail /\ k + 1 \in P}
    BY <1>1, <1>2, SMTT(60) DEF walk
  <2> HIDE DEF P, hits
  <2>3. P \subseteq Positions
    BY DEF P
  <2>4. find_line(list, tag) = FirstOf(order, P)
    BY <1>4, <2>1, <2>2, <2>3
  <2> QED
    BY <2>4 DEF P
<1>6. find_invalid(list) = FirstOf(order, {k \in Positions : ~ list[order[k]].valid})
  <2> DEFINE P == {k \in Positions : ~ list[order[k]].valid}
             hits == {k \in Nodes : walk[k] # tail /\ ~ list[walk[k]].valid}
  <2>1. find_invalid(list) = IF hits = {} THEN null ELSE walk[Min(hits)]
    BY <1>3 DEF find_invalid, Found
  <2>2. hits = {k \in Nodes : walk[k] # tail /\ k + 1 \in P}
    BY <1>1, <1>2, SMTT(60) DEF walk
  <2> HIDE DEF P, hits
  <2>3. P \subseteq Positions
    BY DEF P
  <2>4. find_invalid(list) = FirstOf(order, P)
    BY <1>4, <2>1, <2>2, <2>3
  <2> QED
    BY <2>4 DEF P
<1> QED
  BY <1>5, <1>6

-----------------------------------------------------------------------------
(* Assignments to prev and next. *)

LEMMA UnlinkFields ==
  ASSUME NEW list \in [Nodes -> Node], NEW line \in Nodes,
         list[line].next \in Nodes, list[line].prev \in Nodes,
         NEW new, new = unlink_line(list, line)
  PROVE  /\ new \in [Nodes -> Node]
         /\ \A n \in Nodes :
              /\ new[n].valid = list[n].valid /\ new[n].tag = list[n].tag
              /\ new[n].prev = IF n = list[line].next THEN list[line].prev ELSE list[n].prev
              /\ new[n].next = IF n = list[line].prev THEN list[line].next ELSE list[n].next
<1>1. PICK after \in Nodes, before \in Nodes :
        after = list[line].next /\ before = list[line].prev
  OBVIOUS
<1>2. new = [list EXCEPT ![after].prev = before, ![before].next = after]
  BY <1>1 DEF unlink_line
<1> QED
  BY <1>1, <1>2 DEF Node

LEMMA PrependFields ==
  ASSUME NEW list \in [Nodes -> Node], NEW line \in Lines,
         list[head].next \in Nodes \ {head, line},
         NEW new, new = prepend_line(list, line)
  PROVE  /\ new \in [Nodes -> Node]
         /\ \A n \in Nodes :
              /\ new[n].valid = list[n].valid /\ new[n].tag = list[n].tag
              /\ new[n].prev = IF n = list[head].next THEN line
                               ELSE IF n = line THEN head ELSE list[n].prev
              /\ new[n].next = IF n = head THEN line
                               ELSE IF n = line THEN list[head].next ELSE list[n].next
<1>1. PICK head_next \in Nodes \ {head, line} : head_next = list[head].next
  OBVIOUS
<1>2. line \in Nodes /\ head \in Nodes /\ line # head
  BY InputAssumption DEF Lines, Nodes, head, tail
<1>3. new = [list EXCEPT ![line].prev = head, ![line].next = head_next,
                         ![head].next = line, ![head_next].prev = line]
  BY <1>1 DEF prepend_line
<1> DEFINE line_set == [list EXCEPT ![line].prev = head, ![line].next = head_next]
           head_set == [line_set EXCEPT ![head].next = line]
<1>4. /\ line_set \in [Nodes -> Node]
      /\ \A n \in Nodes :
           /\ line_set[n].valid = list[n].valid /\ line_set[n].tag = list[n].tag
           /\ line_set[n].prev = IF n = line THEN head ELSE list[n].prev
           /\ line_set[n].next = IF n = line THEN head_next ELSE list[n].next
  BY <1>1, <1>2, ZenonT(60) DEF Node
<1> HIDE DEF line_set
<1>5. /\ head_set \in [Nodes -> Node]
      /\ \A n \in Nodes :
           /\ head_set[n].valid = line_set[n].valid /\ head_set[n].tag = line_set[n].tag
           /\ head_set[n].prev = line_set[n].prev
           /\ head_set[n].next = IF n = head THEN line ELSE line_set[n].next
  BY <1>2, <1>4 DEF Node
<1>6. new = [head_set EXCEPT ![head_next].prev = line]
  BY <1>3 DEF line_set
<1> HIDE DEF head_set
<1>7. /\ new \in [Nodes -> Node]
      /\ \A n \in Nodes :
           /\ new[n].valid = head_set[n].valid /\ new[n].tag = head_set[n].tag
           /\ new[n].prev = IF n = head_next THEN line ELSE head_set[n].prev
           /\ new[n].next = head_set[n].next
  BY <1>1, <1>2, <1>5, <1>6 DEF Node
<1> QED
  BY <1>1, <1>2, <1>4, <1>5, <1>7

\* The order in which the i-th line is the first
InFront(order, i) ==
  [k \in Nodes |-> IF k = head \/ k > i THEN order[k]
                   ELSE IF k = 1 THEN order[i] ELSE order[k - 1]]

\* A line that is unlinked and prepended becomes the first, and the order
\* of the others stays.
LEMMA MovedInOrder ==
  ASSUME NEW list, NEW order, Chained(list, order), NEW i \in Positions,
         NEW new, new = Moved(list, order[i])
  PROVE  /\ Chained(new, InFront(order, i))
         /\ \A n \in Nodes : new[n].valid = list[n].valid /\ new[n].tag = list[n].tag
<1> USE DEF Nodes, head, tail, Positions, Lines
<1>1. E \in Nat \ {0}
  BY InputAssumption
<1>2. /\ list \in [Nodes -> Node] /\ order \in [Nodes -> Nodes]
      /\ order[head] = head /\ order[tail] = tail
      /\ \A j, k \in Nodes : order[j] = order[k] => j = k
      /\ \A j, k \in Nodes : k = j + 1 => /\ list[order[j]].next = order[k]
                                          /\ list[order[k]].prev = order[j]
  BY DEF Chained
<1>3. i \in Nodes /\ i - 1 \in Nodes /\ i + 1 \in Nodes /\ head \in Nodes /\ tail \in Nodes
  BY <1>1
<1>4. PICK line \in Lines : line = order[i]
  <2>1. i # head /\ i # tail
    BY <1>1
  <2>2. order[i] # head /\ order[i] # tail /\ order[i] \in Nodes
    BY <1>2, <1>3, <2>1
  <2>3. Lines = Nodes \ {head, tail}
    BY <1>1
  <2> QED
    BY <2>2, <2>3
<1>5. PICK before \in Nodes, after \in Nodes : before = order[i - 1] /\ after = order[i + 1]
  BY <1>2, <1>3, SMTT(60)
<1> DEFINE mid == unlink_line(list, line)
<1>6. /\ mid \in [Nodes -> Node]
      /\ \A n \in Nodes :
           /\ mid[n].valid = list[n].valid /\ mid[n].tag = list[n].tag
           /\ mid[n].prev = IF n = after THEN before ELSE list[n].prev
           /\ mid[n].next = IF n = before THEN after ELSE list[n].next
  <2>1. i = (i - 1) + 1
    BY <1>1
  <2>2. list[line].next = after /\ list[line].prev = before /\ line \in Nodes
    BY <1>2, <1>3, <1>4, <1>5, <2>1
  <2>3. list \in [Nodes -> Node]
    BY <1>2
  <2> HIDE DEF Nodes, Lines
  <2> QED
    BY <1>5, <2>2, <2>3, UnlinkFields
<1> HIDE DEF mid
<1>7. PICK f \in Nodes : f = IF i = 1 THEN 2 ELSE 1
  BY <1>1
<1>8. PICK first \in Nodes : first = order[f]
  BY <1>2
<1>9. first # head /\ first # line /\ mid[head].next = first
  <2>1. f # head /\ f # i
    BY <1>1, <1>7
  <2>2. first # order[head] /\ first # order[i]
    BY <1>2, <1>3, <1>8, <2>1
  <2>3. CASE i = 1
    <3>1. before = head /\ after = first
      BY <1>2, <1>5, <1>7, <1>8, <2>3
    <3> QED
      BY <1>2, <1>3, <1>4, <1>6, <2>2, <3>1
  <2>4. CASE i # 1
    <3>1. i - 1 # head /\ 1 = head + 1 /\ f = 1
      BY <1>1, <1>7, <2>4
    <3>2. before # order[head]
      BY <1>2, <1>3, <1>5, <3>1
    <3>3. list[order[head]].next = order[f]
      BY <1>2, <1>3, <3>1
    <3> QED
      BY <1>2, <1>3, <1>4, <1>6, <1>8, <2>2, <3>2, <3>3
  <2> QED
    BY <2>3, <2>4
<1>10. /\ new \in [Nodes -> Node]
       /\ \A n \in Nodes :
            /\ new[n].valid = mid[n].valid /\ new[n].tag = mid[n].tag
            /\ new[n].prev = IF n = first THEN line ELSE IF n = line THEN head ELSE mid[n].prev
            /\ new[n].next = IF n = head THEN line ELSE IF n = line THEN first ELSE mid[n].next
  <2>1. new = prepend_line(mid, line)
    BY <1>4 DEF Moved, mid
  <2> HIDE DEF Nodes, Lines, head
  <2> QED
    BY <1>4, <1>6, <1>8, <1>9, <2>1, PrependFields
\* The links of the n-th node
<1>11. ASSUME NEW n \in Nodes, NEW m \in Nodes, m = n + 1
       PROVE  new[order[n]].next = IF n = head THEN order[i]
                                   ELSE IF n = i THEN order[f]
                                   ELSE IF n = i - 1 THEN order[i + 1] ELSE order[m]
  <2>1. order[n] = head <=> n = head
    BY <1>2, <1>3
  <2>2. order[n] = line <=> n = i
    BY <1>2, <1>3, <1>4
  <2>3. order[n] = before <=> n = i - 1
    BY <1>2, <1>3, <1>5
  <2>4. list[order[n]].next = order[m] /\ order[n] \in Nodes
    BY <1>2, <1>11
  <2>5. new[order[n]].next = IF order[n] = head THEN line
                             ELSE IF order[n] = line THEN first
                             ELSE IF order[n] = before THEN after ELSE order[m]
    BY <1>6, <1>10, <2>4
  <2> QED
    BY <1>4, <1>5, <1>8, <2>1, <2>2, <2>3, <2>5
<1>12. ASSUME NEW n \in Nodes, NEW m \in Nodes, n = m + 1
       PROVE  new[order[n]].prev = IF n = f THEN order[i]
                                   ELSE IF n = i THEN head
                                   ELSE IF n = i + 1 THEN order[i - 1] ELSE order[m]
  <2>1. order[n] = first <=> n = f
    BY <1>2, <1>8
  <2>2. order[n] = line <=> n = i
    BY <1>2, <1>3, <1>4
  <2>3. order[n] = after <=> n = i + 1
    BY <1>2, <1>3, <1>5
  <2>4. list[order[n]].prev = order[m] /\ order[n] \in Nodes
    BY <1>2, <1>12
  <2>5. new[order[n]].prev = IF order[n] = first THEN line
                             ELSE IF order[n] = line THEN head
                             ELSE IF order[n] = after THEN before ELSE order[m]
    BY <1>6, <1>10, <2>4
  <2> QED
    BY <1>4, <1>5, <1>8, <2>1, <2>2, <2>3, <2>5
<1> DEFINE w == InFront(order, i)
           at(k) == IF k = head \/ k > i THEN k ELSE IF k = 1 THEN i ELSE k - 1
<1>13. /\ \A k \in Nodes : at(k) \in Nodes
       /\ \A k \in Nodes : w[k] = order[at(k)]
  <2>1. \A k \in Nodes : at(k) \in Nodes
    BY <1>1
  <2>2. \A k \in Nodes : w[k] = order[at(k)]
    BY <1>1 DEF InFront
  <2> QED
    BY <2>1, <2>2
<1>14. w \in [Nodes -> Nodes]
  <2>1. \A k \in Nodes : w[k] \in Nodes
    BY <1>2, <1>13
  <2> QED
    BY <2>1 DEF InFront
<1>15. /\ at(head) = head /\ at(1) = i /\ at(tail) = tail
       /\ \A k \in Nodes : (k > 1 /\ k <= i => at(k) = k - 1) /\ (k > i => at(k) = k)
       /\ \A j, k \in Nodes : at(j) = at(k) => j = k
  BY <1>1
<1> HIDE DEF w, at
<1>16. \A j, k \in Nodes : w[j] = w[k] => j = k
  BY <1>2, <1>13, <1>15
<1>17. ASSUME NEW j \in Nodes, NEW k \in Nodes, k = j + 1
       PROVE  new[w[j]].next = w[k] /\ new[w[k]].prev = w[j]
  <2>1. w[j] = order[at(j)] /\ w[k] = order[at(k)]
    BY <1>13
  <2>2. CASE j = head
    <3>1. at(j) = head /\ at(k) = i /\ i - 1 + 1 = i /\ i # f
      BY <1>1, <1>7, <1>15, <1>17, <2>2
    <3>2. 1 \in Nodes /\ 1 = head + 1
      BY <1>1
    <3>3. new[order[head]].next = order[i]
      BY <1>3, <1>11, <3>2
    <3>4. new[order[i]].prev = head
      BY <1>3, <1>12, <3>1
    <3> QED
      BY <1>2, <2>1, <3>1, <3>3, <3>4
  <2>3. CASE j = 1
    <3>1. at(j) = i /\ at(k) = f /\ i # head /\ f - 1 \in Nodes /\ f = f - 1 + 1
      BY <1>1, <1>7, <1>15, <1>17, <2>3
    <3>2. new[order[i]].next = order[f]
      BY <1>3, <1>11, <3>1
    <3>3. new[order[f]].prev = order[i]
      BY <1>7, <1>12, <3>1
    <3> QED
      BY <2>1, <3>1, <3>2, <3>3
  <2>4. CASE j > 1 /\ j < i
    <3>1. at(j) = j - 1 /\ at(k) = j /\ j = j - 1 + 1 /\ j - 1 \in Nodes
      BY <1>1, <1>15, <1>17, <2>4
    <3>2. j - 1 \notin {head, i, i - 1} /\ j \notin {f, i, i + 1}
      BY <1>1, <1>7, <2>4
    <3>3. new[order[j - 1]].next = order[j]
      BY <1>11, <3>1, <3>2
    <3>4. new[order[j]].prev = order[j - 1]
      BY <1>12, <3>1, <3>2
    <3> QED
      BY <2>1, <3>1, <3>3, <3>4
  <2>5. CASE j > 1 /\ j = i
    <3>1. at(j) = i - 1 /\ at(k) = i + 1 /\ i = i - 1 + 1
      BY <1>1, <1>15, <1>17, <2>5
    <3>2. i - 1 # head /\ i - 1 # i /\ i + 1 \notin {f, i}
      BY <1>1, <1>7, <2>5
    <3>3. new[order[i - 1]].next = order[i + 1]
      BY <1>3, <1>11, <3>1, <3>2
    <3>4. new[order[i + 1]].prev = order[i - 1]
      BY <1>3, <1>12, <3>2
    <3> QED
      BY <2>1, <3>1, <3>3, <3>4
  <2>6. CASE j > 1 /\ j > i
    <3>1. at(j) = j /\ at(k) = k
      BY <1>1, <1>15, <1>17, <2>6
    <3>2. j \notin {head, i, i - 1} /\ k \notin {f, i, i + 1}
      BY <1>1, <1>7, <1>17, <2>6
    <3>3. new[order[j]].next = order[k]
      BY <1>11, <1>17, <3>2
    <3>4. new[order[k]].prev = order[j]
      BY <1>12, <1>17, <3>2
    <3> QED
      BY <2>1, <3>1, <3>3, <3>4
  <2> QED
    BY <1>1, <2>2, <2>3, <2>4, <2>5, <2>6
<1>18. w[head] = head /\ w[tail] = tail
  BY <1>2, <1>3, <1>13, <1>15, ZenonT(60)
<1>19. Chained(new, w)
  BY <1>10, <1>14, <1>16, <1>17, <1>18 DEF Chained
<1> QED
  BY <1>6, <1>10, <1>19 DEF w

\* Writing to the valid and the tag of a line moves no line.
LEMMA FilledInOrder ==
  ASSUME NEW list, NEW order, Chained(list, order), NEW line \in Nodes, NEW tag \in Nat,
         NEW new, new = Filled(list, line, tag)
  PROVE  /\ Chained(new, order)
         /\ new[line].valid /\ new[line].tag = tag
         /\ \A n \in Nodes \ {line} : new[n] = list[n]
<1>1. list \in [Nodes -> Node]
  BY DEF Chained
<1>2. /\ new \in [Nodes -> Node]
      /\ new[line].valid /\ new[line].tag = tag
      /\ \A n \in Nodes \ {line} : new[n] = list[n]
      /\ \A n \in Nodes : new[n].next = list[n].next /\ new[n].prev = list[n].prev
  BY <1>1 DEF Filled, Node
<1>3. /\ order \in [Nodes -> Nodes]
      /\ \A j, k \in Nodes : k = j + 1 => /\ list[order[j]].next = order[k]
                                          /\ list[order[k]].prev = order[j]
  BY DEF Chained
<1>4. \A j, k \in Nodes : k = j + 1 => /\ new[order[j]].next = order[k]
                                       /\ new[order[k]].prev = order[j]
  <2> SUFFICES ASSUME NEW j \in Nodes, NEW k \in Nodes, k = j + 1
               PROVE  new[order[j]].next = order[k] /\ new[order[k]].prev = order[j]
    OBVIOUS
  <2>1. order[j] \in Nodes /\ order[k] \in Nodes
    BY <1>3
  <2>2. list[order[j]].next = order[k] /\ list[order[k]].prev = order[j]
    BY <1>3
  <2> QED
    BY <1>2, <2>1, <2>2
<1> QED
  BY <1>2, <1>4 DEF Chained

\* The list of the sentinels and the lines 1 to i, the last one first; the
\* other lines hang nowhere.
NewNext(i, n) == IF n = head THEN (IF i = 0 THEN tail ELSE i)
                 ELSE IF n \in 1 .. i THEN (IF n = 1 THEN tail ELSE n - 1)
                 ELSE null
NewPrev(i, n) == IF n = tail THEN (IF i = 0 THEN head ELSE 1)
                 ELSE IF n \in 1 .. i THEN (IF n = i THEN head ELSE n + 1)
                 ELSE null
NewList(garbage, i) ==
  [n \in Nodes |-> [valid |-> FALSE, tag |-> garbage, prev |-> NewPrev(i, n), next |-> NewNext(i, n)]]

LEMMA NewListFields ==
  ASSUME NEW garbage \in Nat, NEW i \in 0 .. E
  PROVE  /\ NewList(garbage, i) \in [Nodes -> Node]
         /\ \A n \in Nodes : /\ ~ NewList(garbage, i)[n].valid
                             /\ NewList(garbage, i)[n].tag = garbage
                             /\ NewList(garbage, i)[n].prev = NewPrev(i, n)
                             /\ NewList(garbage, i)[n].next = NewNext(i, n)
<1>1. E \in Nat \ {0}
  BY InputAssumption
<1>2. \A n \in Nodes : NewPrev(i, n) \in Nodes \cup {null} /\ NewNext(i, n) \in Nodes \cup {null}
  BY <1>1 DEF NewPrev, NewNext, Nodes, head, tail
<1> QED
  BY <1>2 DEF NewList, Node

\* add_line makes the i-th line the first.
LEMMA AddLine ==
  ASSUME NEW garbage \in Nat, NEW i \in 1 .. E
  PROVE  add_line(NewList(garbage, i - 1), i) = NewList(garbage, i)
<1> DEFINE list == NewList(garbage, i - 1)
           new == prepend_line(list, i)
<1>1. E \in Nat \ {0} /\ i - 1 \in 0 .. E /\ i \in 0 .. E
  BY InputAssumption
<1>2. /\ list \in [Nodes -> Node]
      /\ \A n \in Nodes : /\ ~ list[n].valid /\ list[n].tag = garbage
                          /\ list[n].prev = NewPrev(i - 1, n)
                          /\ list[n].next = NewNext(i - 1, n)
  <2>1. PICK m \in 0 .. E : m = i - 1
    BY <1>1
  <2> QED
    BY <2>1, NewListFields
<1> HIDE DEF list
<1>3. PICK first \in Nodes : first = IF i = 1 THEN tail ELSE i - 1
  BY <1>1 DEF Nodes, head, tail
<1>4. i \in Lines /\ i \in Nodes /\ head \in Nodes /\ first \notin {head, i}
  BY <1>1, <1>3 DEF Lines, Nodes, head, tail
<1>5. NewNext(i - 1, head) = first
  BY <1>1, <1>3 DEF NewNext
<1>6. add_line(list, i) = new
  <2>1. [list EXCEPT ![i].valid = FALSE] = list
    BY <1>2, <1>4 DEF Node
  <2> QED
    BY <2>1 DEF add_line
<1>7. /\ new \in [Nodes -> Node]
      /\ \A n \in Nodes :
           /\ ~ new[n].valid /\ new[n].tag = garbage
           /\ new[n].prev = IF n = first THEN i ELSE IF n = i THEN head ELSE NewPrev(i - 1, n)
           /\ new[n].next = IF n = head THEN i ELSE IF n = i THEN first ELSE NewNext(i - 1, n)
  <2>1. list[head].next = first
    BY <1>2, <1>4, <1>5
  <2> QED
    BY <1>2, <1>3, <1>4, <2>1, PrependFields
<1> HIDE DEF new
<1>8. ASSUME NEW n \in Nodes
      PROVE  new[n] = NewList(garbage, i)[n]
  <2>1. NewNext(i, n) = IF n = head THEN i ELSE IF n = i THEN first ELSE NewNext(i - 1, n)
    <3>1. CASE n \in 1 .. i - 1
      <4>1. n \in 1 .. i /\ n # i /\ n # 0 /\ n \in 1 .. i - 1
        BY <1>1, <3>1
      <4> QED
        BY <1>1, <4>1 DEF NewNext, head
    <3>2. CASE n = i
      BY <1>1, <1>3, <3>2 DEF NewNext, head, tail
    <3>3. CASE n \notin 1 .. i
      <4>1. n \notin 1 .. i - 1 /\ n # i
        BY <1>1, <3>3
      <4> QED
        BY <1>1, <1>3, <3>3, <4>1 DEF NewNext, head, tail
    <3> QED
      BY <1>1, <3>1, <3>2, <3>3
  <2>2. NewPrev(i, n) = IF n = first THEN i ELSE IF n = i THEN head ELSE NewPrev(i - 1, n)
    <3>1. CASE n \in 1 .. i - 1
      <4>1. n \in 1 .. i /\ n # i /\ n # tail /\ n \in 1 .. i - 1
        BY <1>1, <3>1 DEF tail
      <4>2. NewPrev(i, n) = n + 1
        BY <4>1 DEF NewPrev
      <4>3. CASE n = i - 1
        <5>1. n = first /\ n + 1 = i
          BY <1>1, <1>3, <3>1, <4>3
        <5> QED
          BY <4>2, <5>1
      <4>4. CASE n # i - 1
        <5>1. n # first /\ NewPrev(i - 1, n) = n + 1
          BY <1>1, <1>3, <4>1, <4>4 DEF NewPrev
        <5> QED
          BY <4>1, <4>2, <5>1
      <4> QED
        BY <4>3, <4>4
    <3>2. CASE n = i
      BY <1>1, <1>3, <3>2 DEF NewPrev, head, tail
    <3>3. CASE n = tail
      <4>1. n \notin 1 .. i /\ n # i /\ i # 0 /\ n # head
        BY <1>1, <3>3 DEF head, tail
      <4>2. NewPrev(i, n) = 1
        BY <3>3, <4>1 DEF NewPrev
      <4>3. CASE i = 1
        BY <1>3, <3>3, <4>2, <4>3
      <4>4. CASE i # 1
        <5>1. n # first /\ i - 1 # 0
          BY <1>1, <1>3, <3>3, <4>4 DEF tail
        <5> QED
          BY <3>3, <4>1, <4>2, <5>1 DEF NewPrev
      <4> QED
        BY <4>3, <4>4
    <3>4. CASE n \notin 1 .. i /\ n # tail
      <4>1. n \notin 1 .. i - 1 /\ n # i /\ n # first
        BY <1>1, <1>3, <3>4
      <4> QED
        BY <3>4, <4>1 DEF NewPrev
    <3> QED
      BY <1>1, <3>1, <3>2, <3>3, <3>4
  <2>3. new[n].prev = NewPrev(i, n) /\ new[n].next = NewNext(i, n)
    BY <1>7, <2>1, <2>2
  <2>4. /\ NewList(garbage, i)[n] \in Node
        /\ ~ NewList(garbage, i)[n].valid /\ NewList(garbage, i)[n].tag = garbage
        /\ NewList(garbage, i)[n].prev = NewPrev(i, n)
        /\ NewList(garbage, i)[n].next = NewNext(i, n)
    BY <1>1, NewListFields
  <2>5. new[n] \in Node /\ ~ new[n].valid /\ new[n].tag = garbage
    BY <1>7
  <2> QED
    BY <2>3, <2>4, <2>5 DEF Node
<1>9. DOMAIN NewList(garbage, i) = Nodes /\ NewList(garbage, i) \in [Nodes -> Node]
  BY <1>1, NewListFields
<1>10. new = NewList(garbage, i)
  BY <1>7, <1>8, <1>9
<1> QED
  BY <1>6, <1>10 DEF list

LEMMA NewSet ==
  ASSUME NEW garbage \in Nat
  PROVE  new_cset(garbage) = NewList(garbage, E)
<1>1. E \in Nat \ {0}
  BY InputAssumption
<1> DEFINE empty == [n \in Nodes |-> [valid |-> FALSE, tag |-> garbage, prev |-> null, next |-> null]]
           first == [empty EXCEPT ![head].next = tail, ![tail].prev = head]
           Step(f) == [i \in 0 .. E |-> IF i = 0 THEN first ELSE add_line(f[i - 1], i)]
           added == [i \in 0 .. E |-> NewList(garbage, i)]
<1>2. first = NewList(garbage, 0)
  <2>1. \A n \in Nodes : /\ first[n] = [valid |-> FALSE, tag |-> garbage,
                                        prev |-> IF n = tail THEN head ELSE null,
                                        next |-> IF n = head THEN tail ELSE null]
    BY <1>1 DEF Nodes, head, tail
  <2>4. \A n \in Nodes : n \notin 1 .. 0
    BY DEF Nodes
  <2>5. \A n \in Nodes : /\ NewNext(0, n) = (IF n = head THEN tail ELSE null)
                         /\ NewPrev(0, n) = (IF n = tail THEN head ELSE null)
    BY <2>4 DEF NewNext, NewPrev
  <2> HIDE DEF first
  <2>2. \A n \in Nodes : first[n] = NewList(garbage, 0)[n]
    BY <2>1, <2>5 DEF NewList
  <2>3. first = [n \in Nodes |-> first[n]]
    BY DEF first
  <2> QED
    BY <2>2, <2>3 DEF NewList
<1>3. new_cset(garbage) = (CHOOSE f : f = Step(f))[E]
  BY DEF new_cset
<1> HIDE DEF first
<1>4. \A i \in 0 .. E : /\ i = 0 => added[i] = first
                        /\ i # 0 => added[i] = add_line(added[i - 1], i)
  <2>1. ASSUME NEW i \in 0 .. E, i # 0
        PROVE  added[i] = add_line(added[i - 1], i)
    <3>1. i \in 1 .. E /\ i - 1 \in 0 .. E
      BY <1>1, <2>1
    <3> QED
      BY <3>1, AddLine
  <2> QED
    BY <1>1, <1>2, <2>1
<1> HIDE DEF added
<1>5. added = Step(added)
  BY <1>4 DEF added
<1>6. ASSUME NEW f, f = Step(f)
      PROVE  f = added
  <2>1. /\ \A i \in 0 .. E : f[i] = IF i = 0 THEN first ELSE add_line(f[i - 1], i)
        /\ f = [i \in 0 .. E |-> f[i]]
    BY <1>6
  <2> DEFINE Wrong == {i \in 0 .. E : f[i] # added[i]}
  <2>2. ASSUME Wrong # {} PROVE FALSE
    <3>1. Wrong \subseteq Nat
      BY <1>1
    <3>2. PICK i \in Wrong : \A j \in Wrong : i <= j
      BY <2>2, <3>1, LeastNatural
    <3>3. i \in 0 .. E /\ f[i] # added[i]
      BY <3>2
    <3>4. i # 0
      BY <1>4, <2>1, <3>3
    <3>5. i - 1 \in 0 .. E /\ i - 1 \notin Wrong
      BY <1>1, <3>2, <3>4
    <3>6. f[i - 1] = added[i - 1]
      BY <3>5
    <3> QED
      BY <1>4, <2>1, <3>3, <3>4, <3>6
  <2> QED
    BY <2>1, <2>2 DEF added
<1> HIDE DEF Step
<1>7. new_cset(garbage) = added[E]
  BY <1>3, <1>5, <1>6
<1> QED
  BY <1>1, <1>7 DEF added

\* A new set has all lines between its sentinels, none of them valid.
LEMMA NewInOrder ==
  ASSUME NEW garbage \in Nat
  PROVE  /\ \E order : Chained(new_cset(garbage), order)
         /\ \A n \in Nodes : ~ new_cset(garbage)[n].valid
<1>1. E \in Nat \ {0} /\ E \in 0 .. E
  BY InputAssumption
<1> DEFINE order == [k \in Nodes |-> IF k \in 1 .. E THEN E + 1 - k ELSE k]
           list == NewList(garbage, E)
<1>2. /\ list \in [Nodes -> Node]
      /\ \A n \in Nodes : /\ ~ list[n].valid
                          /\ list[n].prev = NewPrev(E, n) /\ list[n].next = NewNext(E, n)
  BY <1>1, NewListFields
<1>3. /\ order \in [Nodes -> Nodes] /\ order[head] = head /\ order[tail] = tail
      /\ \A j, k \in Nodes : order[j] = order[k] => j = k
  BY <1>1 DEF Nodes, head, tail
<1>4. ASSUME NEW j \in Nodes, NEW k \in Nodes, k = j + 1
      PROVE  NewNext(E, order[j]) = order[k] /\ NewPrev(E, order[k]) = order[j]
  <2>1. CASE j = 0
    <3>1. /\ order[j] = head /\ order[k] = E
          /\ E \in 1 .. E /\ E # head /\ E # tail
      BY <1>1, <1>4, <2>1 DEF Nodes, head, tail
    <3> QED
      BY <3>1 DEF NewNext, NewPrev, head
  <2>2. CASE j = E
    <3>1. /\ order[j] = 1 /\ order[k] = tail
          /\ 1 \in 1 .. E /\ 1 # head /\ E # 0
      BY <1>1, <1>4, <2>2 DEF Nodes, head, tail
    <3> QED
      BY <3>1 DEF NewNext, NewPrev
  <2>3. CASE j \in 1 .. E - 1
    <3>1. /\ order[j] = E + 1 - j /\ order[k] = E - j
          /\ E + 1 - j \in 2 .. E /\ E - j \in 1 .. E - 1
      BY <1>1, <1>4, <2>3 DEF Nodes, tail
    <3> QED
      BY <1>1, <3>1 DEF NewNext, NewPrev, head, tail
  <2> QED
    BY <1>1, <1>4, <2>1, <2>2, <2>3 DEF Nodes, head, tail
<1> HIDE DEF order, list
<1>5. \A j, k \in Nodes : k = j + 1 => /\ list[order[j]].next = order[k]
                                       /\ list[order[k]].prev = order[j]
  BY <1>2, <1>3, <1>4, ZenonT(60)
<1>6. Chained(list, order)
  BY <1>2, <1>3, <1>5 DEF Chained
<1>7. new_cset(garbage) = list
  BY NewSet DEF list
<1> QED
  BY <1>2, <1>6, <1>7

-----------------------------------------------------------------------------
(* The sets, as CSim sees them. *)

\* What CSim sees of the lines of a list
Shown(list, order) == [k \in Positions |-> InUse(list[order[k]])]

\* Every set has its nodes in some order, and the second access of an M is to
\* an address of the trace.
Shaped == /\ cset \in [Sets -> [Nodes -> Node]]
          /\ \A x \in Sets : \E order : Chained(cset[x], order)

IInv == /\ phase = "main" => cset = <<>>
        /\ phase = "simulate" => Shaped
        /\ cset = <<>> \/ Shaped
        /\ again \in Addr \cup {none}

\* The operators that CSim takes from CacheShape
LEMMA SimShape ==
  /\ Sim!Sets = Sets /\ Sim!Positions = Positions /\ Sim!none = none /\ null = none
  /\ Lines = Positions /\ Sim!Accesses = Accesses
  /\ \A addr : Sim!Tag(addr) = Tag(addr) /\ Sim!SetIdx(addr) = SetIdx(addr)
BY DEF Sim!Sets, Sets, Sim!Positions, Positions, Lines, Sim!none, none, null, Sim!Tag, Tag,
       Sim!SetIdx, SetIdx, Sim!Accesses, Accesses

\* Which set an address falls into, and its tag
LEMMA AddressParts ==
  ASSUME NEW addr \in Addr
  PROVE  SetIdx(addr) \in Sets /\ Tag(addr) \in Nat
<1>1. addr \div 2^b \in Nat /\ addr \div 2^(s + b) \in Nat
  BY AddrAssumption, PowerAssumption
<1>2. (addr \div 2^b) % 2^s \in 0 .. 2^s - 1
  BY <1>1, PowerAssumption
<1> QED
  BY <1>1, <1>2 DEF SetIdx, Sets, Tag

\* A cache with its sets is not the empty one that main finds.
LEMMA AllocatedIsNotEmpty ==
  ASSUME NEW c \in [Sets -> [Nodes -> Node]]
  PROVE  c # <<>>
<1>1. 0 \in Sets
  BY PowerAssumption DEF Sets
<1>2. DOMAIN c = Sets
  OBVIOUS
<1>3. DOMAIN <<>> = {}
  OBVIOUS
<1> QED
  BY <1>1, <1>2, <1>3

\* CSim sees the lines of a set in the order of its list.
LEMMA WalkShown ==
  ASSUME NEW list, NEW order, Chained(list, order)
  PROVE  [i \in Lines |-> InUse(list[Walk(list)[i - 1]])] = Shown(list, order)
<1>1. E \in Nat \ {0}
  BY InputAssumption
<1>2. Walk(list) = [k \in Nodes |-> IF k = tail THEN tail ELSE order[k + 1]]
  BY WalkInOrder
<1>3. \A i \in Lines : Walk(list)[i - 1] = order[i]
  BY <1>1, <1>2 DEF Lines, Nodes, head, tail
<1>4. \A i \in Lines : InUse(list[Walk(list)[i - 1]]) = InUse(list[order[i]])
  BY <1>3
<1> QED
  BY <1>4, SimShape DEF Shown

\* Where a line is moved to the front, CSim sees it in front.
LEMMA ShownInFront ==
  ASSUME NEW list, NEW order, Chained(list, order), NEW i \in Positions,
         NEW mid, Chained(mid, order),
         \A k \in Positions \ {i} : mid[order[k]] = list[order[k]],
         NEW new, new = Moved(mid, order[i])
  PROVE  /\ Chained(new, InFront(order, i))
         /\ Shown(new, InFront(order, i)) =
              Sim!ToFront(Shown(list, order), i, InUse(mid[order[i]]))
<1>1. /\ Chained(new, InFront(order, i))
      /\ \A n \in Nodes : new[n].valid = mid[n].valid /\ new[n].tag = mid[n].tag
  BY MovedInOrder
<1>2. E \in Nat \ {0} /\ i \in 1 .. E
  BY InputAssumption DEF Positions
<1>3. \A n \in Nodes : InUse(new[n]) = InUse(mid[n])
  BY <1>1, Zenon DEF InUse
<1>4. order \in [Nodes -> Nodes] /\ Positions \subseteq Nodes
  BY <1>2 DEF Chained, Nodes, head, tail, Positions
<1>5. ASSUME NEW k \in Positions
      PROVE  InUse(new[InFront(order, i)[k]]) =
               IF k = 1 THEN InUse(mid[order[i]])
               ELSE IF k <= i THEN InUse(list[order[k - 1]]) ELSE InUse(list[order[k]])
  <2>1. CASE k = 1
    <3>1. InFront(order, i)[k] = order[i] /\ order[i] \in Nodes
      BY <1>2, <1>4, <2>1 DEF InFront, head
    <3> QED
      BY <1>3, <2>1, <3>1
  <2>2. CASE k # 1 /\ k <= i
    <3>1. k - 1 \in Positions \ {i} /\ InFront(order, i)[k] = order[k - 1]
      BY <1>2, <1>4, <2>2 DEF InFront, head, Positions
    <3>2. order[k - 1] \in Nodes
      BY <1>4, <3>1
    <3> QED
      BY <1>3, <2>2, <3>1, <3>2
  <2>3. CASE k > i
    <3>1. /\ k \in Positions \ {i} /\ InFront(order, i)[k] = order[k]
          /\ k # 1 /\ ~ (k <= i)
      BY <1>2, <1>4, <2>3 DEF InFront, head, Positions
    <3>2. order[k] \in Nodes
      BY <1>4
    <3> QED
      BY <1>3, <3>1, <3>2
  <2> QED
    BY <1>2, <2>1, <2>2, <2>3 DEF Positions
<1>6. ASSUME NEW k \in Positions, k # 1, k <= i
      PROVE  Shown(list, order)[k - 1] = InUse(list[order[k - 1]])
  <2>1. k - 1 \in Positions
    BY <1>2, <1>6 DEF Positions
  <2> QED
    BY <2>1 DEF Shown
<1>7. \A k \in Positions : Shown(list, order)[k] = InUse(list[order[k]])
  BY DEF Shown
<1>8. Shown(new, InFront(order, i)) =
        Sim!ToFront(Shown(list, order), i, InUse(mid[order[i]]))
  <2>1. \A k \in Positions :
          InUse(new[InFront(order, i)[k]]) =
            IF k = 1 THEN InUse(mid[order[i]])
            ELSE IF k <= i THEN Shown(list, order)[k - 1] ELSE Shown(list, order)[k]
    BY <1>5, <1>6, <1>7
  <2>2. Shown(new, InFront(order, i)) = [k \in Positions |-> InUse(new[InFront(order, i)[k]])]
    BY DEF Shown
  <2> HIDE DEF Shown
  <2> QED
    BY <2>1, <2>2, SimShape DEF Sim!ToFront
<1> QED
  BY <1>1, <1>8

\* What CSim finds in a list is the place of what the code finds.
LEMMA ShownSearch ==
  ASSUME NEW list, NEW order, Chained(list, order), NEW tag \in Nat
  PROVE  /\ LET i == Sim!find_line(Shown(list, order), tag)
            IN  \/ i = none /\ find_line(list, tag) = null
                \/ i \in Positions /\ find_line(list, tag) = order[i]
         /\ LET i == Sim!find_invalid(Shown(list, order))
            IN  \/ i = none /\ find_invalid(list) = null
                \/ i \in Positions /\ find_invalid(list) = order[i]
<1>1. ASSUME NEW S, S \subseteq Positions
      PROVE  \/ Sim!First(S) = none /\ FirstOf(order, S) = null
             \/ Sim!First(S) \in Positions /\ FirstOf(order, S) = order[Sim!First(S)]
  <2>1. CASE S = {}
    BY <2>1, SimShape DEF Sim!First, FirstOf
  <2>2. CASE S # {}
    <3>1. S \subseteq Nat
      BY <1>1, InputAssumption DEF Positions
    <3>2. (CHOOSE i \in S : \A j \in S : i <= j) \in S
      BY <2>2, <3>1, LeastNatural
    <3> QED
      BY <1>1, <2>2, <3>2 DEF Sim!First, FirstOf
  <2> QED
    BY <2>1, <2>2
<1> DEFINE Having == {k \in Positions : list[order[k]].valid /\ list[order[k]].tag = tag}
           Invalid == {k \in Positions : ~ list[order[k]].valid}
<1>2. \A k \in Positions : /\ Shown(list, order)[k].valid <=> list[order[k]].valid
                           /\ Shown(list, order)[k].tag = IF list[order[k]].valid
                                                          THEN list[order[k]].tag ELSE none
  <2>1. \A k \in Positions : Shown(list, order)[k] = InUse(list[order[k]])
    BY DEF Shown
  <2>2. \A line : /\ InUse(line).valid = line.valid
                  /\ InUse(line).tag = IF line.valid THEN line.tag ELSE none
    BY Zenon DEF InUse
  <2> QED
    BY <2>1, <2>2
<1>3. Sim!find_line(Shown(list, order), tag) = Sim!First(Having)
  <2>1. Having = {k \in Positions : Shown(list, order)[k].valid /\ Shown(list, order)[k].tag = tag}
    BY <1>2
  <2> QED
    BY <2>1, SimShape DEF Sim!find_line
<1>4. Sim!find_invalid(Shown(list, order)) = Sim!First(Invalid)
  <2>1. Invalid = {k \in Positions : ~ Shown(list, order)[k].valid}
    BY <1>2
  <2> QED
    BY <2>1, SimShape DEF Sim!find_invalid
<1>5. find_line(list, tag) = FirstOf(order, Having) /\ find_invalid(list) = FirstOf(order, Invalid)
  BY SearchInOrder
<1> HIDE DEF Having, Invalid
<1>6. Having \subseteq Positions /\ Invalid \subseteq Positions
  BY DEF Having, Invalid
<1>7. \/ Sim!First(Having) = none /\ FirstOf(order, Having) = null
      \/ Sim!First(Having) \in Positions /\ FirstOf(order, Having) = order[Sim!First(Having)]
  BY <1>1, <1>6
<1>8. \/ Sim!First(Invalid) = none /\ FirstOf(order, Invalid) = null
      \/ Sim!First(Invalid) \in Positions /\ FirstOf(order, Invalid) = order[Sim!First(Invalid)]
  BY <1>1, <1>6
<1> QED
  BY <1>3, <1>4, <1>5, <1>7, <1>8

\* The lines of a list are its nodes but head and tail.
LEMMA PlaceOfLine ==
  ASSUME NEW list, NEW order, Chained(list, order)
  PROVE  /\ \A i \in Positions : order[i] \in Nodes /\ order[i] # null
         /\ \A i, j \in Positions : order[i] = order[j] => i = j
         /\ E \in Positions /\ list[tail].prev = order[E]
<1>1. E \in Nat \ {0}
  BY InputAssumption
<1>2. /\ order \in [Nodes -> Nodes] /\ order[tail] = tail
      /\ \A j, k \in Nodes : order[j] = order[k] => j = k
      /\ \A j, k \in Nodes : k = j + 1 => list[order[k]].prev = order[j]
  BY DEF Chained
<1>3. Positions \subseteq Nodes /\ E \in Positions /\ E \in Nodes /\ tail \in Nodes
  BY <1>1 DEF Positions, Nodes, head, tail
<1>4. list[tail].prev = order[E]
  <2>1. list[order[tail]].prev = order[E]
    BY <1>2, <1>3 DEF tail
  <2> QED
    BY <1>2, <2>1
<1>5. null \notin Nodes
  BY <1>1 DEF null, none, Nodes, head, tail
<1> QED
  BY <1>2, <1>3, <1>4, <1>5

\* An access does to the lists what it does in CSim, and leaves lists.
LEMMA AccessRefines ==
  ASSUME Shaped, NEW addr \in Addr, access_cache(addr)
  PROVE  Sim!access_cache(addr) /\ Shaped'
<1> DEFINE x == SetIdx(addr)
           tag == Tag(addr)
           list == cset[x]
<1>1. x \in Sets /\ tag \in Nat
  BY AddressParts
<1>2. PICK order : Chained(list, order)
  BY <1>1 DEF Shaped
<1>3. Listed[x] = Shown(list, order)
  <2>1. cset # <<>>
    BY AllocatedIsNotEmpty DEF Shaped
  <2>2. Listed[x] = [k \in Lines |-> InUse(list[Walk(list)[k - 1]])]
    BY <1>1, <2>1 DEF Listed
  <2> QED
    BY <1>2, <2>2, WalkShown
<1>4. cset \in [Sets -> [Nodes -> Node]]
  BY DEF Shaped
<1>5. ASSUME NEW i \in Positions, NEW mid, Chained(mid, order),
             \A k \in Positions \ {i} : mid[order[k]] = list[order[k]],
             NEW line, line = order[i],
             cset' = [cset EXCEPT ![x] = Moved(mid, line)]
      PROVE  /\ Listed' = [Listed EXCEPT ![x] =
                             Sim!ToFront(Listed[x], i, InUse(mid[order[i]]))]
             /\ Shaped'
  <2> DEFINE new == Moved(mid, line)
  <2>1. /\ Chained(new, InFront(order, i))
        /\ Shown(new, InFront(order, i)) = Sim!ToFront(Listed[x], i, InUse(mid[order[i]]))
    <3>1. new = Moved(mid, order[i])
      BY <1>5
    <3> HIDE DEF new, list
    <3>2. Chained(list, order) /\ Listed[x] = Shown(list, order)
      BY <1>2, <1>3
    <3>3. \A k \in Positions \ {i} : mid[order[k]] = list[order[k]]
      BY <1>5
    <3> QED
      BY <1>5, <3>1, <3>2, <3>3, ShownInFront
  <2>2. new \in [Nodes -> Node]
    BY <2>1 DEF Chained
  <2> HIDE DEF new
  <2>3. /\ cset' \in [Sets -> [Nodes -> Node]] /\ cset'[x] = new
        /\ \A y \in Sets \ {x} : cset'[y] = cset[y]
    BY <1>1, <1>4, <1>5, <2>2 DEF new
  <2>4. \A y \in Sets : \E o : Chained(cset'[y], o)
    BY <2>1, <2>3 DEF Shaped
  <2>5. Shaped'
    BY <2>3, <2>4 DEF Shaped
  <2>6. cset # <<>> /\ cset' # <<>>
    BY <1>4, <2>3, AllocatedIsNotEmpty
  <2>7. /\ DOMAIN Listed = Sets /\ DOMAIN Listed' = Sets
        /\ Listed = [y \in Sets |-> Listed[y]] /\ Listed' = [y \in Sets |-> Listed'[y]]
    BY DEF Listed
  <2>8. Listed'[x] = Shown(new, InFront(order, i))
    <3>1. Listed'[x] = [k \in Lines |-> InUse(new[Walk(new)[k - 1]])]
      BY <1>1, <2>3, <2>6 DEF Listed
    <3> QED
      BY <2>1, <3>1, WalkShown DEF new
  <2>9. ASSUME NEW y \in Sets \ {x}
        PROVE  Listed'[y] = Listed[y]
    <3>1. /\ Listed[y] = [k \in Lines |-> InUse(cset[y][Walk(cset[y])[k - 1]])]
          /\ Listed'[y] = [k \in Lines |-> InUse(cset'[y][Walk(cset'[y])[k - 1]])]
      BY <2>6 DEF Listed
    <3>2. cset'[y] = cset[y]
      BY <2>3
    <3> QED
      BY <3>1, <3>2
  <2> DEFINE front == Sim!ToFront(Listed[x], i, InUse(mid[order[i]]))
  <2>10. Listed'[x] = front
    BY <2>1, <2>8 DEF new
  <2> HIDE DEF front
  <2>11. Listed' = [Listed EXCEPT ![x] = front]
    BY <1>1, <2>7, <2>9, <2>10
  <2> QED
    BY <2>5, <2>11 DEF front
<1> DEFINE found == Sim!find_line(Listed[x], tag)
           free == Sim!find_invalid(Listed[x])
<1>7. /\ \/ found = none /\ find_line(list, tag) = null
         \/ found \in Positions /\ find_line(list, tag) = order[found]
      /\ \/ free = none /\ find_invalid(list) = null
         \/ free \in Positions /\ find_invalid(list) = order[free]
  BY <1>1, <1>2, <1>3, ShownSearch
<1> HIDE DEF found, free
<1>8. /\ \A i \in Positions : order[i] \in Nodes /\ order[i] # null
      /\ \A i, j \in Positions : order[i] = order[j] => i = j
      /\ E \in Positions /\ list[tail].prev = order[E]
      /\ none \notin Positions
  BY <1>2, InputAssumption, PlaceOfLine DEF none, Positions
<1>9. last' = [last EXCEPT ![addr \div 2^b] = Accesses + 1] /\ Accesses < MaxAccesses
  BY DEF access_cache
<1>10. CASE find_line(list, tag) # null
  <2>1. /\ cset' = [cset EXCEPT ![x] = Moved(list, find_line(list, tag))]
        /\ hit_count' = hit_count + 1
        /\ UNCHANGED <<miss_count, eviction_count>>
    BY <1>10 DEF access_cache
  <2>2. found \in Positions /\ find_line(list, tag) = order[found] /\ found # none
    BY <1>7, <1>8, <1>10
  <2>3. InUse(list[order[found]]) = Listed[x][found]
    BY <1>3, <2>2 DEF Shown
  <2>4. /\ Listed' = [Listed EXCEPT ![x] = Sim!ToFront(Listed[x], found, Listed[x][found])]
        /\ Shaped'
    <3> HIDE DEF list
    <3>1. cset' = [cset EXCEPT ![x] = Moved(list, find_line(list, tag))]
      BY <2>1 DEF list
    <3> QED
      BY <1>2, <1>5, <2>2, <2>3, <3>1
  <2>5. Sim!Hit(addr, Listed[x])
    BY <2>1, <2>2, <2>4, SimShape DEF Sim!Hit, found
  <2> QED
    BY <1>9, <2>4, <2>5, SimShape DEF Sim!access_cache, Sim!Touch
<1>11. CASE find_line(list, tag) = null
  <2> DEFINE victim == IF find_invalid(list) = null THEN list[tail].prev ELSE find_invalid(list)
             i == Sim!Victim(Listed[x])
             mid == Filled(list, victim, tag)
  <2>1. /\ cset' = [cset EXCEPT ![x] = Moved(mid, victim)]
        /\ eviction_count' = eviction_count + (IF find_invalid(list) = null THEN 1 ELSE 0)
        /\ miss_count' = miss_count + 1
        /\ UNCHANGED hit_count
    BY <1>11 DEF access_cache
  <2>2. /\ i \in Positions /\ victim = order[i] /\ victim \in Nodes
        /\ free = none <=> find_invalid(list) = null
    BY <1>7, <1>8, SimShape DEF Sim!Victim, free
  <2>3. /\ Chained(mid, order)
        /\ mid[victim].valid /\ mid[victim].tag = tag
        /\ \A n \in Nodes \ {victim} : mid[n] = list[n]
    BY <1>1, <1>2, <2>2, FilledInOrder
  <2> HIDE DEF victim, i, mid
  <2>4. \A k \in Positions \ {i} : mid[order[k]] = list[order[k]]
    BY <1>8, <2>2, <2>3
  <2>5. InUse(mid[order[i]]) = [valid |-> TRUE, tag |-> tag]
    <3>1. mid[victim].valid = TRUE
      <4>1. mid \in [Nodes -> Node]
        BY <2>3 DEF Chained
      <4> QED
        BY <2>2, <2>3, <4>1 DEF Node
    <3> QED
      BY <2>2, <2>3, <3>1 DEF InUse
  <2>6. /\ Listed' = [Listed EXCEPT ![x] = Sim!ToFront(Listed[x], i, [valid |-> TRUE, tag |-> tag])]
        /\ Shaped'
    <3>1. /\ Listed' = [Listed EXCEPT ![x] = Sim!ToFront(Listed[x], i, InUse(mid[order[i]]))]
          /\ Shaped'
      <4> HIDE DEF list
      <4> QED
        BY <1>5, <2>1, <2>2, <2>3, <2>4
    <3> QED
      BY <2>5, <3>1
  <2>7. found = none
    BY <1>7, <1>8, <1>11
  <2>8. Sim!CountMiss(Listed[x])
    BY <2>1, <2>2, SimShape DEF Sim!CountMiss, free
  <2>9. Sim!Miss(addr, Listed[x])
    BY <2>1, <2>6, <2>7, <2>8, SimShape DEF Sim!Miss, Sim!Filled, found, i
  <2> QED
    BY <1>9, <2>6, <2>9, SimShape DEF Sim!access_cache, Sim!Touch
<1> QED
  BY <1>10, <1>11

\* main allocates lists whose lines are not in use.
LEMMA MainRefines ==
  ASSUME IInv, main
  PROVE  IInv' /\ UNCHANGED Sim!vars
<1>1. phase = "main" /\ cset = <<>>
  BY DEF IInv, main
<1>2. UNCHANGED <<hit_count, miss_count, eviction_count, again, last>>
  BY DEF main, counts
<1>3. PICK argv \in Argvs :
        IF Parsed(argv).h = 0 /\ is_valid_input(Parsed(argv))
        THEN /\ phase' = "simulate"
             /\ \E garbage \in Garbage : cset' = [x \in Sets |-> new_cset(garbage)]
        ELSE phase' = "exited" /\ UNCHANGED cset
  BY DEF main
<1>4. CASE phase' = "exited" /\ UNCHANGED cset
  <2>1. Listed' = Listed
    BY <1>4 DEF Listed
  <2>2. IInv'
    BY <1>1, <1>2, <1>4 DEF IInv
  <2> QED
    BY <1>2, <2>1, <2>2 DEF Sim!vars, Sim!counts
<1>5. CASE phase' = "simulate" /\ \E garbage \in Garbage : cset' = [x \in Sets |-> new_cset(garbage)]
  <2>1. PICK garbage \in Garbage : cset' = [x \in Sets |-> new_cset(garbage)]
    BY <1>5
  <2> DEFINE list == new_cset(garbage)
  <2>2. garbage \in Nat
    BY <2>1, GarbageAssumption
  <2>3. PICK order : Chained(list, order)
    BY <2>2, NewInOrder
  <2>4. \A n \in Nodes : ~ list[n].valid
    BY <2>2, NewInOrder
  <2> HIDE DEF list
  <2>5. /\ list \in [Nodes -> Node] /\ order \in [Nodes -> Nodes] /\ Positions \subseteq Nodes
    BY <2>3, InputAssumption DEF Chained, Positions, Nodes, head, tail
  <2>6. cset' = [x \in Sets |-> list]
    BY <2>1 DEF list
  <2>7. Shaped'
    <3>1. cset' \in [Sets -> [Nodes -> Node]]
      BY <2>5, <2>6
    <3>2. \A x \in Sets : cset'[x] = list
      BY <2>6
    <3> QED
      BY <2>3, <3>1, <3>2 DEF Shaped
  <2>8. Listed' = Listed
    <3>1. cset' # <<>>
      BY <2>7, AllocatedIsNotEmpty DEF Shaped
    <3>2. Listed' = [x \in Sets |-> Shown(list, order)]
      <4>1. \A x \in Sets : [i \in Lines |-> InUse(cset'[x][Walk(cset'[x])[i - 1]])] = Shown(list, order)
        BY <2>3, <2>6, WalkShown
      <4>2. Listed' = [x \in Sets |-> [i \in Lines |-> InUse(cset'[x][Walk(cset'[x])[i - 1]])]]
        BY <3>1 DEF Listed
      <4> QED
        BY <4>1, <4>2
    <3>3. Shown(list, order) = [i \in Lines |-> [valid |-> FALSE, tag |-> none]]
      <4>1. \A i \in Positions : ~ list[order[i]].valid /\ list[order[i]] \in Node
        BY <2>4, <2>5
      <4>2. \A i \in Positions : InUse(list[order[i]]) = [valid |-> FALSE, tag |-> none]
        BY <4>1 DEF InUse, Node
      <4> QED
        BY <4>2, SimShape DEF Shown
    <3>4. Listed = [x \in Sets |-> [i \in Lines |-> [valid |-> FALSE, tag |-> none]]]
      BY <1>1 DEF Listed
    <3> QED
      BY <3>2, <3>3, <3>4
  <2>9. IInv'
    BY <1>2, <1>5, <2>7 DEF IInv
  <2> QED
    BY <1>2, <2>8, <2>9 DEF Sim!vars, Sim!counts
<1> QED
  BY <1>3, <1>4, <1>5

LEMMA InitRefines == Init => IInv /\ Sim!Init
<1> SUFFICES ASSUME Init PROVE IInv /\ Sim!Init
  OBVIOUS
<1>1. IInv
  BY DEF Init, IInv
<1>2. Listed = [x \in Sets |-> [i \in Lines |-> [valid |-> FALSE, tag |-> none]]]
  BY DEF Init, Listed
<1>3. Listed \in [Sim!Sets -> [Sim!Positions -> [valid : {FALSE}, tag : {Sim!none}]]]
  BY <1>2, SimShape
<1> QED
  BY <1>1, <1>3, SimShape DEF Init, Sim!Init

\* Every step is one of CSim, or leaves what CSim sees as it is.
LEMMA NextRefines == IInv /\ [Next]_vars => IInv' /\ [Sim!Next]_Sim!vars
<1> SUFFICES ASSUME IInv, [Next]_vars
             PROVE  IInv' /\ [Sim!Next]_Sim!vars
  OBVIOUS
<1>1. CASE main
  BY <1>1, MainRefines
<1>2. ASSUME NEW id \in {"L", "S", "M"}, NEW addr \in Addr, simulate(id, addr)
      PROVE  IInv' /\ Sim!simulate(id, addr)
  <2>1. Shaped /\ access_cache(addr) /\ phase' = phase
    BY <1>2 DEF IInv, simulate
  <2>2. Sim!access_cache(addr) /\ Shaped'
    BY <2>1, AccessRefines
  <2>3. IInv'
    BY <1>2, <2>2 DEF IInv, simulate
  <2> QED
    BY <1>2, <2>2, <2>3, SimShape DEF simulate, Sim!simulate
<1>3. ASSUME Modify
      PROVE  IInv' /\ Sim!Modify
  <2>1. Shaped /\ phase' = phase /\ again' = none /\ again # none
    BY <1>3 DEF IInv, Modify
  <2>2. again \in Addr
    BY <2>1 DEF IInv
  <2>3. PICK addr \in Addr : addr = again
    BY <2>2
  <2>4. access_cache(addr)
    BY <1>3, <2>3 DEF Modify
  <2>5. Sim!access_cache(addr) /\ Shaped'
    BY <2>1, <2>4, AccessRefines
  <2>6. IInv'
    BY <1>3, <2>1, <2>5 DEF IInv, Modify
  <2>7. Sim!access_cache(again)
    BY <2>3, <2>5
  <2> QED
    BY <2>1, <2>6, <2>7, SimShape DEF Sim!Modify
<1>4. CASE EndOfTrace
  <2>1. Listed' = Listed /\ Shaped' = Shaped
    BY <1>4 DEF EndOfTrace, Listed, Shaped
  <2> QED
    BY <1>4, <2>1 DEF EndOfTrace, counts, IInv, Sim!vars, Sim!counts
<1>5. CASE UNCHANGED vars
  <2>1. Listed' = Listed /\ Shaped' = Shaped
    BY <1>5 DEF vars, Listed, Shaped
  <2> QED
    BY <1>5, <2>1 DEF vars, counts, IInv, Sim!vars, Sim!counts
<1> QED
  BY <1>1, <1>2, <1>3, <1>4, <1>5 DEF Next, Sim!Next

(***************************************************************************)
(* Every walk, search, unlink and prepend of the pointers is what CSim     *)
(* says of the lists (csim.c:81-222).                                     *)
(***************************************************************************)
THEOREM PointersAreLists == Spec => Sim!Spec
BY InitRefines, NextRefines, PTL DEF Spec, Sim!Spec

-----------------------------------------------------------------------------
(* The lists, as CSim has them: Listed is its cache.  They stay ordered,   *)
(* the second access of an M hits, and every hit, miss and eviction is one *)
(* of a cache that keeps the blocks used last (LRU).                       *)

\* The inductive invariant of the lists.
ListsInv == Sim!TypeOK /\ Sim!ListOrdered /\ Sim!AgainFirst

-----------------------------------------------------------------------------
\* Every nonempty set of positions has a least one.
LEMMA LeastPosition ==
  ASSUME NEW S, S \subseteq Sim!Positions, S # {}
  PROVE  \E i \in S : \A j \in S : i <= j
<1> DEFINE R == OpToRel(<, Nat)
<1>1. S \subseteq Nat
  BY InputAssumption DEF Sim!Positions
<1>2. IsWellFoundedOn(R, Nat)
  BY NatLessThanWellFounded
<1>3. PICK i \in S : \A j \in S : ~ (<<j, i>> \in R)
  BY <1>1, <1>2, WFMin, Zenon
<1>4. \A j \in S : ~ (j < i)
  BY <1>1, <1>3 DEF OpToRel
<1> QED
  BY <1>1, <1>4

\* A search returns a position it looks for, or none when there is none.
LEMMA FirstFinds ==
  ASSUME NEW S, S \subseteq Sim!Positions
  PROVE  /\ S # {} => Sim!First(S) \in S
         /\ S = {} <=> Sim!First(S) = Sim!none
<1>1. CASE S = {}
  BY <1>1 DEF Sim!First
<1>2. CASE S # {}
  <2>1. Sim!First(S) \in S
    BY <1>2, LeastPosition DEF Sim!First
  <2>2. Sim!none \notin Sim!Positions
    BY InputAssumption DEF Sim!none, Sim!Positions
  <2> QED
    BY <1>2, <2>1, <2>2
<1> QED
  BY <1>1, <1>2

\* The set index of an address is that of a set.
LEMMA SetIdxType ==
  ASSUME NEW addr \in Addr
  PROVE  Sim!SetIdx(addr) \in Sim!Sets /\ Sim!Tag(addr) \in Sim!Tags
<1>1. addr \div 2^b \in Nat
  BY AddrAssumption, PowerAssumption
<1>2. (addr \div 2^b) % 2^s \in 0 .. 2^s - 1
  BY <1>1, PowerAssumption
<1> QED
  BY <1>2 DEF Sim!SetIdx, Sim!Sets, Sim!Tag, Sim!Tags

-----------------------------------------------------------------------------
\* Which line an access takes from the list, what that line held, how the
\* access counts, and what it leaves: the line comes first with the tag of the
\* address, and no other line had that tag.
LEMMA AccessTakesLine ==
  ASSUME ListsInv, NEW addr \in Addr, Sim!access_cache(addr)
  PROVE  \E i \in Sim!Positions :
           /\ Listed' = [Listed EXCEPT ![Sim!SetIdx(addr)] =
                          Sim!ToFront(Listed[Sim!SetIdx(addr)], i,
                                  [valid |-> TRUE, tag |-> Sim!Tag(addr)])]
           /\ \A j \in Sim!Positions \ {i} :
                ~ ( /\ Listed[Sim!SetIdx(addr)][j].valid
                    /\ Listed[Sim!SetIdx(addr)][j].tag = Sim!Tag(addr))
           /\ \/ /\ Listed[Sim!SetIdx(addr)][i].valid
                 /\ Listed[Sim!SetIdx(addr)][i].tag = Sim!Tag(addr)
                 /\ hit_count' = hit_count + 1
                 /\ UNCHANGED <<miss_count, eviction_count>>
              \/ /\ ~ ( /\ Listed[Sim!SetIdx(addr)][i].valid
                       /\ Listed[Sim!SetIdx(addr)][i].tag = Sim!Tag(addr))
                 /\ miss_count' = miss_count + 1
                 /\ UNCHANGED hit_count
                 /\ \/ ~ Listed[Sim!SetIdx(addr)][i].valid /\ UNCHANGED eviction_count
                    \/ /\ i = E /\ \A j \in Sim!Positions : Listed[Sim!SetIdx(addr)][j].valid
                       /\ eviction_count' = eviction_count + 1
<1> DEFINE x == Sim!SetIdx(addr)
           tag == Sim!Tag(addr)
           places == Listed[x]
           Having == {j \in Sim!Positions : places[j].valid /\ places[j].tag = tag}
           Invalid == {j \in Sim!Positions : ~ places[j].valid}
<1>1. x \in Sim!Sets /\ tag \in Sim!Tags
  BY SetIdxType
<1>2. places \in [Sim!Positions -> Sim!Line]
  BY <1>1 DEF ListsInv, Sim!TypeOK
<1>3. CASE Sim!Hit(addr, places)
  <2> DEFINE i == Sim!find_line(places, tag)
  <2>1. i = Sim!First(Having)
    BY DEF Sim!find_line
  <2>2. i \in Having
    BY <1>3, <2>1, FirstFinds DEF Sim!Hit
  <2>3. places[i] = [valid |-> TRUE, tag |-> tag]
    BY <1>2, <2>2 DEF Sim!Line
  <2>4. \A j \in Sim!Positions \ {i} : ~ (places[j].valid /\ places[j].tag = tag)
    BY <1>1, <2>2, InputAssumption DEF ListsInv, Sim!ListOrdered, Sim!Positions
  <2>5. /\ Listed' = [Listed EXCEPT ![x] = Sim!ToFront(places, i, places[i])]
        /\ hit_count' = hit_count + 1 /\ UNCHANGED <<miss_count, eviction_count>>
    BY <1>3 DEF Sim!Hit
  <2> HIDE DEF i
  <2>6. Listed' = [Listed EXCEPT ![x] = Sim!ToFront(places, i, [valid |-> TRUE, tag |-> tag])]
    BY <2>3, <2>5
  <2> QED
    BY <2>2, <2>4, <2>5, <2>6
<1>4. CASE Sim!Miss(addr, places)
  <2> DEFINE i == Sim!Victim(places)
  <2>1. Having = {}
    BY <1>4, FirstFinds DEF Sim!Miss, Sim!find_line
  <2>2. /\ i \in Sim!Positions
        /\ \/ ~ places[i].valid /\ UNCHANGED eviction_count
           \/ /\ i = E /\ \A j \in Sim!Positions : places[j].valid
              /\ eviction_count' = eviction_count + 1
    <3>1. Sim!find_invalid(places) = Sim!First(Invalid)
      BY DEF Sim!find_invalid
    <3>2. CASE Sim!find_invalid(places) # Sim!none
      <4>1. Sim!find_invalid(places) \in Invalid /\ i = Sim!find_invalid(places)
        BY <3>1, <3>2, FirstFinds DEF Sim!Victim
      <4>2. eviction_count' = eviction_count
        BY <1>4, <3>2 DEF Sim!Miss, Sim!CountMiss, ListsInv, Sim!TypeOK
      <4> QED
        BY <4>1, <4>2
    <3>3. CASE Sim!find_invalid(places) = Sim!none
      <4>1. E \in Sim!Positions /\ i = E
        BY <3>3, InputAssumption DEF Sim!Positions, Sim!Victim
      <4>2. Invalid = {}
        BY <3>1, <3>3, FirstFinds
      <4>3. eviction_count' = eviction_count + 1
        BY <1>4, <3>3 DEF Sim!Miss, Sim!CountMiss
      <4> QED
        BY <4>1, <4>2, <4>3
    <3> QED
      BY <3>2, <3>3
  <2>3. /\ Listed' = [Listed EXCEPT ![x] = Sim!ToFront(places, i, [valid |-> TRUE, tag |-> tag])]
        /\ miss_count' = miss_count + 1 /\ UNCHANGED hit_count
    BY <1>4 DEF Sim!Miss, Sim!Filled, Sim!CountMiss
  <2> HIDE DEF i
  <2>4. \A j \in Sim!Positions : ~ (places[j].valid /\ places[j].tag = tag)
    BY <2>1
  <2> QED
    BY <2>2, <2>3, <2>4
<1> QED
  BY <1>3, <1>4 DEF Sim!access_cache

\* Moving the only line with its tag to the front keeps a list ordered.
LEMMA ToFrontOrdered ==
  ASSUME NEW places \in [Sim!Positions -> Sim!Line], NEW i \in Sim!Positions,
         NEW tag \in Sim!Tags,
         \A p, q \in Sim!Positions :
           p < q /\ places[q].valid => places[p].valid /\ places[p].tag # places[q].tag,
         \A j \in Sim!Positions \ {i} : ~ (places[j].valid /\ places[j].tag = tag),
         NEW new, new = Sim!ToFront(places, i, [valid |-> TRUE, tag |-> tag])
  PROVE  /\ new \in [Sim!Positions -> Sim!Line]
         /\ new[1] = [valid |-> TRUE, tag |-> tag]
         /\ \A p, q \in Sim!Positions :
              p < q /\ new[q].valid => new[p].valid /\ new[p].tag # new[q].tag
<1> DEFINE old(q) == IF q <= i THEN q - 1 ELSE q
<1>1. 1 \in Sim!Positions /\ Sim!Positions \subseteq Nat \ {0}
  BY InputAssumption DEF Sim!Positions
<1>2. [valid |-> TRUE, tag |-> tag] \in Sim!Line
  BY DEF Sim!Line
<1>3. new[1] = [valid |-> TRUE, tag |-> tag]
  BY <1>1 DEF Sim!ToFront
<1>4. \A q \in Sim!Positions \ {1} : /\ old(q) \in Sim!Positions \ {i}
                                 /\ new[q] = places[old(q)]
  BY InputAssumption DEF Sim!Positions, Sim!ToFront
<1>5. \A p, q \in Sim!Positions \ {1} : p < q => old(p) < old(q)
  BY <1>1
<1> HIDE DEF old
<1>6. new \in [Sim!Positions -> Sim!Line]
  <2>1. ASSUME NEW q \in Sim!Positions
        PROVE  new[q] \in Sim!Line
    <3>1. CASE q = 1
      BY <1>2, <1>3, <3>1
    <3>2. CASE q # 1
      BY <1>4, <3>2, ZenonT(60)
    <3> QED
      BY <3>1, <3>2
  <2> QED
    BY <2>1 DEF Sim!ToFront
<1>7. ASSUME NEW p \in Sim!Positions, NEW q \in Sim!Positions, p < q, new[q].valid
      PROVE  new[p].valid /\ new[p].tag # new[q].tag
  <2>1. q # 1
    BY <1>1, <1>7
  <2>2. new[q] = places[old(q)] /\ old(q) \in Sim!Positions \ {i} /\ places[old(q)].valid
    BY <1>4, <1>7, <2>1
  <2>3. CASE p = 1
    <3>1. places[old(q)].tag # tag
      BY <2>2
    <3>2. new[p].valid /\ new[p].tag = tag
      BY <1>3, <2>3
    <3> QED
      BY <2>2, <3>1, <3>2
  <2>4. CASE p # 1
    <3>1. old(p) < old(q) /\ old(p) \in Sim!Positions /\ new[p] = places[old(p)]
      BY <1>4, <1>5, <1>7, <2>1, <2>4
    <3> QED
      BY <2>2, <3>1
  <2> QED
    BY <2>3, <2>4
<1> QED
  BY <1>3, <1>6, <1>7

\* Each access keeps the invariant, if the next access of an M, when there is
\* one to come, is to the same address.
LEMMA AccessPreserves ==
  ASSUME ListsInv, NEW addr \in Addr, Sim!access_cache(addr), again' \in {Sim!none, addr}
  PROVE  ListsInv'
<1> DEFINE x == Sim!SetIdx(addr)
           tag == Sim!Tag(addr)
<1>1. x \in Sim!Sets /\ tag \in Sim!Tags
  BY SetIdxType
<1>2. PICK i \in Sim!Positions :
        /\ Listed' = [Listed EXCEPT ![x] = Sim!ToFront(Listed[x], i, [valid |-> TRUE, tag |-> tag])]
        /\ \A j \in Sim!Positions \ {i} : ~ (Listed[x][j].valid /\ Listed[x][j].tag = tag)
  BY AccessTakesLine
<1>3. Listed \in [Sim!Sets -> [Sim!Positions -> Sim!Line]]
  BY DEF ListsInv, Sim!TypeOK
<1>4. /\ Listed'[x] = Sim!ToFront(Listed[x], i, [valid |-> TRUE, tag |-> tag])
      /\ \A y \in Sim!Sets \ {x} : Listed'[y] = Listed[y]
  BY <1>1, <1>2, <1>3
<1>5. /\ Listed'[x] \in [Sim!Positions -> Sim!Line]
      /\ Listed'[x][1] = [valid |-> TRUE, tag |-> tag]
      /\ \A p, q \in Sim!Positions :
           p < q /\ Listed'[x][q].valid
             => Listed'[x][p].valid /\ Listed'[x][p].tag # Listed'[x][q].tag
  <2>1. \A p, q \in Sim!Positions :
          p < q /\ Listed[x][q].valid => Listed[x][p].valid /\ Listed[x][p].tag # Listed[x][q].tag
    BY <1>1 DEF ListsInv, Sim!ListOrdered
  <2> QED
    BY <1>1, <1>2, <1>3, <1>4, <2>1, ToFrontOrdered
<1>6. Sim!TypeOK'
  <2>1. Listed' \in [Sim!Sets -> [Sim!Positions -> Sim!Line]]
    BY <1>1, <1>2, <1>3, <1>5
  <2>2. /\ hit_count' \in Nat /\ miss_count' \in Nat /\ eviction_count' \in Nat
        /\ Sim!Accesses' = Sim!Accesses + 1 /\ Sim!Accesses \in Nat
    <3>1. hit_count \in Nat /\ miss_count \in Nat /\ eviction_count \in Nat
      BY DEF ListsInv, Sim!TypeOK
    <3>2. CASE Sim!Hit(addr, Listed[x])
      BY <3>1, <3>2 DEF Sim!Hit, Sim!Accesses
    <3>3. CASE Sim!Miss(addr, Listed[x])
      BY <3>1, <3>3 DEF Sim!Miss, Sim!CountMiss, Sim!Accesses
    <3> QED
      BY <3>2, <3>3 DEF Sim!access_cache
  <2>3. last' \in [{a \div 2^b : a \in Addr} -> 0 .. Sim!Accesses']
    BY <2>2 DEF ListsInv, Sim!TypeOK, Sim!access_cache, Sim!Touch
  <2> QED
    BY <2>1, <2>2, <2>3 DEF Sim!TypeOK
<1>7. Sim!ListOrdered'
  <2>1. ASSUME NEW y \in Sim!Sets, NEW p \in Sim!Positions, NEW q \in Sim!Positions,
               p < q, Listed'[y][q].valid
        PROVE  Listed'[y][p].valid /\ Listed'[y][p].tag # Listed'[y][q].tag
    <3>1. CASE y = x
      BY <1>5, <2>1, <3>1
    <3>2. CASE y # x
      BY <1>4, <2>1, <3>2 DEF ListsInv, Sim!ListOrdered
    <3> QED
      BY <3>1, <3>2
  <2> QED
    BY <2>1 DEF Sim!ListOrdered
<1>8. Sim!AgainFirst'
  BY <1>5 DEF Sim!AgainFirst
<1> QED
  BY <1>6, <1>7, <1>8 DEF ListsInv

-----------------------------------------------------------------------------
LEMMA InitHolds == Sim!Init => ListsInv
<1> SUFFICES ASSUME Sim!Init PROVE ListsInv
  OBVIOUS
<1>1. Listed \in [Sim!Sets -> [Sim!Positions -> Sim!Line]]
  BY DEF Sim!Init, Sim!Line
<1>2. \A x \in Sim!Sets : \A i \in Sim!Positions : ~ Listed[x][i].valid
  BY DEF Sim!Init
<1> QED
  BY <1>1, <1>2 DEF Sim!Init, ListsInv, Sim!TypeOK, Sim!ListOrdered, Sim!AgainFirst, Sim!Accesses

LEMMA NextPreserves == ListsInv /\ [Sim!Next]_Sim!vars => ListsInv'
<1> SUFFICES ASSUME ListsInv, [Sim!Next]_Sim!vars PROVE ListsInv'
  OBVIOUS
<1>1. ASSUME NEW id \in {"L", "S", "M"}, NEW addr \in Addr, Sim!simulate(id, addr)
      PROVE  ListsInv'
  BY <1>1, AccessPreserves DEF Sim!simulate
<1>2. CASE Sim!Modify
  <2>1. again \in Addr
    BY <1>2 DEF ListsInv, Sim!TypeOK, Sim!Modify
  <2> QED
    BY <1>2, <2>1, AccessPreserves DEF Sim!Modify
<1>3. CASE UNCHANGED Sim!vars
  BY <1>3
  DEF Sim!vars, Sim!counts, ListsInv, Sim!TypeOK, Sim!ListOrdered, Sim!AgainFirst, Sim!Accesses
<1> QED
  BY <1>1, <1>2, <1>3 DEF Sim!Next

\* In every list the lines in use come first, each with its own tag
\* (csim.c:161-189): tail->prev is always the right victim.
THEOREM ListsOrdered == Sim!Spec => []Sim!ListOrdered
<1>1. ListsInv => Sim!ListOrdered
  BY DEF ListsInv
<1> QED
  BY <1>1, InitHolds, NextPreserves, PTL DEF Sim!Spec

\* The variables keep their types.
THEOREM ListsTypeCorrect == Sim!Spec => []Sim!TypeOK
<1>1. ListsInv => Sim!TypeOK
  BY DEF ListsInv
<1> QED
  BY <1>1, InitHolds, NextPreserves, PTL DEF Sim!Spec

\* The second access of an M (csim.c:354) hits, for every shape of the cache.
THEOREM AgainHits == Sim!Spec => Sim!ModifyHits
<1>1. ASSUME ListsInv, [Sim!Next]_Sim!vars
      PROVE  [again # Sim!none => hit_count' = hit_count + 1]_Sim!vars
  <2> SUFFICES ASSUME again # Sim!none, ~ UNCHANGED Sim!vars
               PROVE  hit_count' = hit_count + 1
    OBVIOUS
  <2>1. Sim!Modify
    BY <1>1 DEF Sim!Next, Sim!simulate
  <2> DEFINE places == Listed[Sim!SetIdx(again)]
             Having == {j \in Sim!Positions : places[j].valid /\ places[j].tag = Sim!Tag(again)}
  <2>2. 1 \in Having
    BY <1>1, InputAssumption DEF ListsInv, Sim!AgainFirst, Sim!Positions
  <2>3. Sim!First(Having) # Sim!none
    BY <2>2, FirstFinds
  <2>4. ~ Sim!Miss(again, places)
    BY <2>3 DEF Sim!Miss, Sim!find_line
  <2> QED
    BY <2>1, <2>4 DEF Sim!Modify, Sim!access_cache, Sim!Hit
<1> QED
  BY <1>1, InitHolds, NextPreserves, PTL DEF Sim!Spec, Sim!ModifyHits

-----------------------------------------------------------------------------
(* Arithmetic that the provers do not find by themselves. *)

LEMMA Euclid ==
  ASSUME NEW a \in Nat, NEW n \in Nat \ {0}
  PROVE  \E q \in Nat, r \in 0 .. n - 1 : q = a \div n /\ r = a % n /\ a = n * q + r
<1>1. a \div n \in Nat /\ a % n \in 0 .. n - 1
  OBVIOUS
<1>2. PICK q \in Nat, r \in Nat : q = a \div n /\ r = a % n
  BY <1>1
<1>3. a = n * q + r
  BY <1>2
<1> QED
  BY <1>1, <1>2, <1>3

LEMMA OneQuotient ==
  ASSUME NEW n \in Nat \ {0}, NEW p \in Nat, NEW q \in Nat,
         NEW r \in 0 .. n - 1, NEW t \in 0 .. n - 1, n * q + r = n * p + t
  PROVE  p = q
<1>1. CASE p < q
  <2>1. n * q >= n * (p + 1)
    BY <1>1
  <2> QED
    BY <2>1
<1>2. CASE p > q
  <2>1. n * p >= n * (q + 1)
    BY <1>2
  <2> QED
    BY <2>1
<1> QED
  BY <1>1, <1>2

LEMMA DivTwice ==
  ASSUME NEW m \in Nat \ {0}, NEW n \in Nat \ {0}, NEW a \in Nat
  PROVE  a \div (m * n) = (a \div n) \div m
<1>1. PICK q \in Nat, r \in 0 .. n - 1 : q = a \div n /\ r = a % n /\ a = n * q + r
  BY Euclid
<1>2. PICK p \in Nat, t \in 0 .. m - 1 : p = q \div m /\ t = q % m /\ q = m * p + t
  BY Euclid
<1>3. n * q = (m * n) * p + n * t
  <2>1. n * (m * p + t) = n * (m * p) + n * t
    OBVIOUS
  <2>2. n * (m * p) = (m * n) * p
    OBVIOUS
  <2> QED
    BY <1>2, <2>1, <2>2
<1>4. n * t + r \in 0 .. m * n - 1
  <2>1. n * t <= n * (m - 1)
    OBVIOUS
  <2>2. 0 <= n * t
    OBVIOUS
  <2> QED
    BY <2>1, <2>2
<1>5. PICK k \in Nat \ {0} : k = m * n
  OBVIOUS
<1>6. PICK u \in 0 .. k - 1 : u = n * t + r
  BY <1>4, <1>5
<1>7. a = k * p + u
  BY <1>1, <1>3, <1>5, <1>6
<1>8. PICK w \in Nat, v \in 0 .. k - 1 : w = a \div k /\ v = a % k /\ a = k * w + v
  BY Euclid
<1>9. w = p
  BY <1>7, <1>8, OneQuotient
<1> QED
  BY <1>1, <1>2, <1>5, <1>8, <1>9

-----------------------------------------------------------------------------
Blocks == {addr \div 2^b : addr \in Addr}
BlocksOf(x) == {y \in Blocks : y % 2^s = x}

\* A line of the set of y that holds y
Holding(line, y) == line.valid /\ line.tag = y \div 2^s

\* The lines in use of set x hold blocks of it that were used, the one used
\* last first, and a block that was used and has gone is older than all of
\* them, of which there are then E.
Recent(places, used, x) ==
  /\ \A i \in Sim!Positions : places[i].valid => \E y \in BlocksOf(x) : Holding(places[i], y)
  /\ \A i \in Sim!Positions : \A y \in BlocksOf(x) : Holding(places[i], y) => used[y] > 0
  /\ \A i, j \in Sim!Positions : \A y, z \in BlocksOf(x) :
       i < j /\ Holding(places[i], y) /\ Holding(places[j], z) => used[z] < used[y]
  /\ \A y \in BlocksOf(x) :
       used[y] > 0 /\ (\A i \in Sim!Positions : ~ Holding(places[i], y)) =>
         \A i \in Sim!Positions :
           /\ places[i].valid
           /\ \A z \in BlocksOf(x) : Holding(places[i], z) => used[y] < used[z]

Used == {y \in Blocks : last[y] > 0}

LRUInv == IsFiniteSet(Used) /\ \A x \in Sim!Sets : Recent(Listed[x], last, x)

\* The set and the tag of an address are those of its block.
LEMMA BlockParts ==
  ASSUME NEW addr \in Addr
  PROVE  LET y == addr \div 2^b
         IN  /\ y \in Nat /\ y \in BlocksOf(Sim!SetIdx(addr))
             /\ Sim!SetIdx(addr) = y % 2^s /\ Sim!Tag(addr) = y \div 2^s
             /\ Sim!SetIdx(addr) \in Sim!Sets
<1>1. PICK m \in Nat \ {0}, n \in Nat \ {0} : m = 2^s /\ n = 2^b /\ 2^(s + b) = m * n
  BY PowerAssumption
<1>2. addr \in Nat
  BY AddrAssumption
<1>3. addr \div (m * n) = (addr \div n) \div m
  BY <1>2, DivTwice
<1>4. addr \div 2^b \in Nat /\ addr \div 2^b \in Blocks
  BY <1>1, <1>2 DEF Blocks
<1> QED
  BY <1>1, <1>3, <1>4, SetIdxType DEF Sim!SetIdx, Sim!Tag, BlocksOf

LEMMA BlockTypes ==
  /\ Blocks \subseteq Nat
  /\ \A y \in Blocks : y % 2^s \in Sim!Sets /\ y \in BlocksOf(y % 2^s)
<1>1. ASSUME NEW y \in Blocks
      PROVE  y \in Nat /\ y % 2^s \in Sim!Sets /\ y \in BlocksOf(y % 2^s)
  <2>1. PICK addr \in Addr : y = addr \div 2^b
    BY DEF Blocks
  <2> QED
    BY <2>1, BlockParts DEF BlocksOf
<1> QED
  BY <1>1

\* A line holds one block at most.
LEMMA OneBlock ==
  ASSUME NEW x, NEW y \in BlocksOf(x), NEW z \in BlocksOf(x), NEW line,
         Holding(line, y), Holding(line, z)
  PROVE  y = z
<1>1. y \in Nat /\ z \in Nat /\ y % 2^s = z % 2^s
  BY BlockTypes DEF BlocksOf
<1>2. PICK m \in Nat \ {0} : m = 2^s
  BY PowerAssumption
<1>3. y \div m = z \div m
  BY <1>2 DEF Holding
<1>4. PICK q \in Nat, r \in 0 .. m - 1 : q = y \div m /\ r = y % m /\ y = m * q + r
  BY <1>1, Euclid
<1>5. PICK p \in Nat, t \in 0 .. m - 1 : p = z \div m /\ t = z % m /\ z = m * p + t
  BY <1>1, Euclid
<1> QED
  BY <1>1, <1>2, <1>3, <1>4, <1>5

\* Where ToFront takes the q-th line from
Source(i, q) == IF q <= i THEN q - 1 ELSE q

LEMMA ToFrontSources ==
  ASSUME NEW places, NEW i \in Sim!Positions, NEW line,
         NEW new, new = Sim!ToFront(places, i, line)
  PROVE  /\ 1 \in Sim!Positions /\ new[1] = line
         /\ \A q \in Sim!Positions \ {1} : /\ Source(i, q) \in Sim!Positions \ {i}
                                       /\ new[q] = places[Source(i, q)]
         /\ \A p, q \in Sim!Positions \ {1} : p < q => Source(i, p) < Source(i, q)
         /\ \A j \in Sim!Positions \ {i} : \E q \in Sim!Positions \ {1} : Source(i, q) = j
<1>1. E \in Nat \ {0} /\ i \in 1 .. E
  BY InputAssumption DEF Sim!Positions
<1>2. ASSUME NEW j \in Sim!Positions \ {i}
      PROVE  \E q \in Sim!Positions \ {1} : Source(i, q) = j
  <2>1. CASE j < i
    <3>1. j + 1 \in Sim!Positions \ {1} /\ Source(i, j + 1) = j
      BY <1>1, <2>1 DEF Source, Sim!Positions
    <3> QED
      BY <3>1
  <2>2. CASE j > i
    <3>1. j \in Sim!Positions \ {1} /\ Source(i, j) = j
      BY <1>1, <2>2 DEF Source, Sim!Positions
    <3> QED
      BY <3>1
  <2> QED
    BY <1>1, <2>1, <2>2 DEF Sim!Positions
<1>3. 1 \in Sim!Positions /\ new[1] = line
  BY <1>1 DEF Sim!Positions, Sim!ToFront
<1>4. \A q \in Sim!Positions \ {1} : /\ Source(i, q) \in Sim!Positions \ {i}
                                 /\ new[q] = places[Source(i, q)]
  BY <1>1 DEF Sim!Positions, Sim!ToFront, Source
<1>5. \A p, q \in Sim!Positions \ {1} : p < q => Source(i, p) < Source(i, q)
  BY <1>1 DEF Sim!Positions, Source
<1> QED
  BY <1>2, <1>3, <1>4, <1>5

\* A block that is used comes first, and its set still holds the blocks that
\* were used last: the line it takes over was not in use, or was the last of
\* a full set.
LEMMA UseKeepsRecent ==
  ASSUME NEW x \in Sim!Sets, NEW places \in [Sim!Positions -> Sim!Line],
         NEW now \in Nat \ {0}, NEW used \in [Blocks -> 0 .. now - 1], Recent(places, used, x),
         NEW y \in BlocksOf(x), NEW i \in Sim!Positions,
         \A j \in Sim!Positions \ {i} : ~ Holding(places[j], y),
         \/ Holding(places[i], y)
         \/ ~ places[i].valid
         \/ i = E /\ \A j \in Sim!Positions : places[j].valid,
         NEW line, Holding(line, y),
         NEW new, new = Sim!ToFront(places, i, line),
         NEW used2, used2 = [used EXCEPT ![y] = now]
  PROVE  Recent(new, used2, x)
<1>1. /\ 1 \in Sim!Positions /\ new[1] = line
      /\ \A q \in Sim!Positions \ {1} : /\ Source(i, q) \in Sim!Positions \ {i}
                                    /\ new[q] = places[Source(i, q)]
      /\ \A p, q \in Sim!Positions \ {1} : p < q => Source(i, p) < Source(i, q)
      /\ \A j \in Sim!Positions \ {i} : \E q \in Sim!Positions \ {1} : Source(i, q) = j
  BY ToFrontSources
<1>2. /\ used2[y] = now
      /\ \A z \in BlocksOf(x) : /\ used[z] \in 0 .. now - 1
                                /\ z # y => used2[z] = used[z]
  BY DEF BlocksOf
<1>3. \A q \in Sim!Positions \ {1} : \A z \in BlocksOf(x) : Holding(new[q], z) => z # y
  BY <1>1
<1>4. \A z \in BlocksOf(x) : Holding(new[1], z) => z = y
  BY <1>1, OneBlock
<1>5. ASSUME NEW q \in Sim!Positions, new[q].valid
      PROVE  \E z \in BlocksOf(x) : Holding(new[q], z)
  <2>1. CASE q = 1
    BY <1>1, <2>1
  <2>2. CASE q # 1
    BY <1>1, <1>5, <2>2 DEF Recent
  <2> QED
    BY <2>1, <2>2
<1>6. ASSUME NEW q \in Sim!Positions, NEW z \in BlocksOf(x), Holding(new[q], z)
      PROVE  used2[z] > 0
  <2>1. CASE q = 1
    BY <1>2, <1>4, <1>6, <2>1
  <2>2. CASE q # 1
    <3>1. Source(i, q) \in Sim!Positions /\ Holding(places[Source(i, q)], z) /\ z # y
      BY <1>1, <1>3, <1>6, <2>2
    <3>2. used[z] > 0
      BY <3>1 DEF Recent
    <3> QED
      BY <1>2, <3>1, <3>2
  <2> QED
    BY <2>1, <2>2
<1>7. ASSUME NEW p \in Sim!Positions, NEW q \in Sim!Positions,
             NEW v \in BlocksOf(x), NEW z \in BlocksOf(x),
             p < q, Holding(new[p], v), Holding(new[q], z)
      PROVE  used2[z] < used2[v]
  <2>1. q # 1
    BY <1>7, InputAssumption DEF Sim!Positions
  <2>2. z # y /\ Source(i, q) \in Sim!Positions /\ Holding(places[Source(i, q)], z)
    BY <1>1, <1>3, <1>7, <2>1
  <2>3. CASE p = 1
    BY <1>2, <1>4, <1>7, <2>2, <2>3
  <2>4. CASE p # 1
    <3>1. v # y /\ Source(i, p) \in Sim!Positions /\ Holding(places[Source(i, p)], v)
      BY <1>1, <1>3, <1>7, <2>4
    <3>2. Source(i, p) < Source(i, q)
      BY <1>1, <1>7, <2>1, <2>4
    <3>3. used[z] < used[v]
      BY <2>2, <3>1, <3>2 DEF Recent
    <3> QED
      BY <1>2, <2>2, <3>1, <3>3
  <2> QED
    BY <2>3, <2>4
<1>8. ASSUME NEW w \in BlocksOf(x), used2[w] > 0, \A q \in Sim!Positions : ~ Holding(new[q], w)
      PROVE  \A q \in Sim!Positions :
               /\ new[q].valid
               /\ \A z \in BlocksOf(x) : Holding(new[q], z) => used2[w] < used2[z]
  <2>1. w # y
    BY <1>1, <1>8
  <2>2. used[w] > 0 /\ used2[w] = used[w] /\ used[w] < now
    BY <1>2, <1>8, <2>1
  <2>3. \A j \in Sim!Positions \ {i} : ~ Holding(places[j], w)
    BY <1>1, <1>8
  <2>4. \A j \in Sim!Positions \ {i} :
          /\ places[j].valid
          /\ \A z \in BlocksOf(x) : Holding(places[j], z) => used[w] < used[z]
    <3>1. CASE Holding(places[i], w)
      <4>1. ~ Holding(places[i], y)
        BY <2>1, <3>1, OneBlock
      <4>2. places[i].valid
        BY <3>1 DEF Holding
      <4>3. i = E /\ \A j \in Sim!Positions : places[j].valid
        BY <4>1, <4>2
      <4>4. \A j \in Sim!Positions \ {i} : j < i
        BY <4>3, InputAssumption DEF Sim!Positions
      <4> QED
        BY <3>1, <4>3, <4>4 DEF Recent
    <3>2. CASE ~ Holding(places[i], w)
      <4>1. \A j \in Sim!Positions : ~ Holding(places[j], w)
        BY <2>3, <3>2
      <4> QED
        BY <2>2, <4>1 DEF Recent
    <3> QED
      BY <3>1, <3>2
  <2>5. ASSUME NEW q \in Sim!Positions
        PROVE  /\ new[q].valid
               /\ \A z \in BlocksOf(x) : Holding(new[q], z) => used2[w] < used2[z]
    <3>1. CASE q = 1
      BY <1>1, <1>2, <1>4, <2>2, <3>1 DEF Holding
    <3>2. CASE q # 1
      BY <1>1, <1>2, <1>3, <2>2, <2>4, <3>2
    <3> QED
      BY <3>1, <3>2
  <2> QED
    BY <2>5
<1> QED
  BY <1>5, <1>6, <1>7, <1>8 DEF Recent

\* Each access keeps the blocks used last in every set.
LEMMA AccessKeepsRecent ==
  ASSUME ListsInv, LRUInv, NEW addr \in Addr, Sim!access_cache(addr)
  PROVE  LRUInv'
<1> DEFINE x == Sim!SetIdx(addr)
           tag == Sim!Tag(addr)
           line == [valid |-> TRUE, tag |-> tag]
<1>1. PICK y : y = addr \div 2^b
  OBVIOUS
<1>2. y \in BlocksOf(x) /\ y \in Blocks /\ tag = y \div 2^s /\ x \in Sim!Sets
  BY <1>1, BlockParts DEF BlocksOf
<1>3. PICK i \in Sim!Positions :
        /\ Listed' = [Listed EXCEPT ![x] = Sim!ToFront(Listed[x], i, line)]
        /\ \A j \in Sim!Positions \ {i} : ~ (Listed[x][j].valid /\ Listed[x][j].tag = tag)
        /\ \/ Listed[x][i].valid /\ Listed[x][i].tag = tag
           \/ ~ Listed[x][i].valid
           \/ i = E /\ \A j \in Sim!Positions : Listed[x][j].valid
  BY AccessTakesLine
<1>4. PICK now : now = Sim!Accesses + 1
  OBVIOUS
<1>5. /\ now \in Nat \ {0} /\ last \in [Blocks -> 0 .. now - 1]
      /\ last' = [last EXCEPT ![y] = now]
  BY <1>1, <1>4 DEF Sim!access_cache, Sim!Touch, ListsInv, Sim!TypeOK, Sim!Accesses, Blocks
<1>6. Listed \in [Sim!Sets -> [Sim!Positions -> Sim!Line]]
  BY DEF ListsInv, Sim!TypeOK
<1>7. /\ Listed'[x] = Sim!ToFront(Listed[x], i, line)
      /\ \A z \in Sim!Sets \ {x} : Listed'[z] = Listed[z]
  BY <1>2, <1>3, <1>6
<1>8. Recent(Listed'[x], last', x)
  <2>1. /\ \A j \in Sim!Positions \ {i} : ~ Holding(Listed[x][j], y)
        /\ \/ Holding(Listed[x][i], y)
           \/ ~ Listed[x][i].valid
           \/ i = E /\ \A j \in Sim!Positions : Listed[x][j].valid
        /\ Holding(line, y)
    BY <1>2, <1>3 DEF Holding
  <2>2. Recent(Listed[x], last, x) /\ Listed[x] \in [Sim!Positions -> Sim!Line]
    BY <1>2, <1>6 DEF LRUInv
  <2> HIDE DEF line, x
  <2> QED
    BY <1>2, <1>5, <1>7, <2>1, <2>2, UseKeepsRecent
<1>9. ASSUME NEW z \in Sim!Sets \ {x}
      PROVE  Recent(Listed'[z], last', z)
  <2>1. y \notin BlocksOf(z)
    BY <1>2 DEF BlocksOf
  <2>2. \A v \in BlocksOf(z) : last'[v] = last[v]
    BY <1>5, <2>1 DEF BlocksOf
  <2>3. Recent(Listed[z], last, z) /\ Listed'[z] = Listed[z]
    BY <1>7 DEF LRUInv
  <2> QED
    BY <2>2, <2>3 DEF Recent
<1>10. IsFiniteSet(Used')
  <2>1. Used' = Used \cup {y}
    BY <1>2, <1>5 DEF Used
  <2> QED
    BY <2>1, FS_AddElement DEF LRUInv
<1> QED
  BY <1>8, <1>9, <1>10 DEF LRUInv

LEMMA InitIsRecent == Sim!Init => LRUInv
<1> SUFFICES ASSUME Sim!Init PROVE LRUInv
  OBVIOUS
<1>1. /\ \A x \in Sim!Sets : \A i \in Sim!Positions : ~ Listed[x][i].valid
      /\ \A y \in Blocks : last[y] = 0
  BY DEF Sim!Init, Blocks
<1>2. Used = {}
  BY <1>1 DEF Used
<1>3. \A x \in Sim!Sets : Recent(Listed[x], last, x)
  BY <1>1 DEF Recent, Holding, BlocksOf
<1> QED
  BY <1>2, <1>3, FS_EmptySet DEF LRUInv

-----------------------------------------------------------------------------
\* Blocks in places are no more than the places, and places with blocks no
\* more than the blocks.
LEMMA FewerThanPlaces ==
  ASSUME NEW x, NEW places, NEW S, S \subseteq BlocksOf(x), NEW T, T \subseteq Sim!Positions,
         \A y \in S : \E i \in T : Holding(places[i], y)
  PROVE  /\ IsFiniteSet(T) /\ Cardinality(T) \in Nat
         /\ IsFiniteSet(S) /\ Cardinality(S) <= Cardinality(T)
<1> DEFINE f == [y \in S |-> CHOOSE i \in T : Holding(places[i], y)]
<1>1. \A y \in S : f[y] \in T /\ Holding(places[f[y]], y)
  OBVIOUS
<1>2. f \in [S -> T]
  BY <1>1
<1>3. \A y, z \in S : f[y] = f[z] => y = z
  BY <1>1, OneBlock
<1> HIDE DEF f
<1>4. f \in Injection(S, T)
  BY <1>2, <1>3, Fun_IsInj
<1>5. IsFiniteSet(T)
  <2>1. IsFiniteSet(Sim!Positions)
    BY InputAssumption, FS_Interval DEF Sim!Positions
  <2> QED
    BY <2>1, FS_Subset
<1> QED
  BY <1>4, <1>5, FS_Injection, FS_CardinalityType

LEMMA FewerThanBlocks ==
  ASSUME NEW x, NEW places, NEW S, S \subseteq BlocksOf(x), IsFiniteSet(S),
         NEW T, T \subseteq Sim!Positions,
         \A i \in T : \E y \in S : Holding(places[i], y),
         \A i, j \in Sim!Positions : i < j /\ places[j].valid => places[i].tag # places[j].tag
  PROVE  /\ Cardinality(T) <= Cardinality(S)
         /\ Cardinality(T) \in Nat /\ Cardinality(S) \in Nat
<1> DEFINE f == [i \in T |-> CHOOSE y \in S : Holding(places[i], y)]
<1>1. \A i \in T : f[i] \in S /\ Holding(places[i], f[i])
  OBVIOUS
<1>2. f \in [T -> S]
  BY <1>1
<1>3. ASSUME NEW i \in T, NEW j \in T, f[i] = f[j]
      PROVE  i = j
  <2>1. places[i].valid /\ places[j].valid /\ places[i].tag = places[j].tag
    BY <1>1, <1>3 DEF Holding
  <2>2. ~ (i < j) /\ ~ (j < i)
    BY <2>1
  <2> QED
    BY <2>2, InputAssumption DEF Sim!Positions
<1> HIDE DEF f
<1>4. f \in Injection(T, S)
  BY <1>2, <1>3, Fun_IsInj
<1> QED
  BY <1>4, FS_Injection, FS_CardinalityType

LEMMA SameCardinality == \A S : Sim!Abstract!Cardinality(S) = Cardinality(S)
BY DEF Sim!Abstract!Cardinality, Cardinality

\* The blocks in the lists are the ones that LRU has in the cache.
LEMMA HeldIsResident ==
  ASSUME ListsInv, LRUInv, NEW y \in Blocks
  PROVE  Sim!Abstract!Resident(y) <=> \E i \in Sim!Positions : Holding(Listed[y % 2^s][i], y)
<1> DEFINE x == y % 2^s
           places == Listed[x]
           newer == {z \in BlocksOf(x) : last[z] > last[y]}
<1>1. x \in Sim!Sets /\ y \in BlocksOf(x)
  BY BlockTypes
<1>2. Recent(places, last, x)
  BY <1>1 DEF LRUInv
<1>3. last \in [Blocks -> Nat] /\ newer \subseteq Used /\ newer \subseteq BlocksOf(x)
  BY <1>1 DEF ListsInv, Sim!TypeOK, Used, Blocks, BlocksOf, Sim!Accesses
<1>4. IsFiniteSet(newer)
  BY <1>3, FS_Subset DEF LRUInv
<1>5. \A i, j \in Sim!Positions : i < j /\ places[j].valid => places[i].tag # places[j].tag
  BY <1>1 DEF ListsInv, Sim!ListOrdered
<1>6. Sim!Abstract!Resident(y) <=> last[y] > 0 /\ Cardinality(newer) < E
  <2>1. {z \in Sim!Abstract!SameSet(y) : last[z] > last[y]} = newer
    BY DEF Sim!Abstract!SameSet, BlocksOf, Blocks
  <2> QED
    BY <2>1, SameCardinality DEF Sim!Abstract!Resident
<1> HIDE DEF newer, places, x
<1>7. ASSUME NEW i \in Sim!Positions, Holding(places[i], y)
      PROVE  last[y] > 0 /\ Cardinality(newer) < E
  <2>1. last[y] > 0
    BY <1>1, <1>2, <1>7 DEF Recent
  <2>2. ASSUME NEW z \in newer
        PROVE  \E j \in 1 .. i - 1 : Holding(places[j], z)
    <3>1. z \in BlocksOf(x) /\ last[z] > last[y] /\ last[z] \in Nat /\ last[y] \in Nat
      BY <1>3 DEF newer, BlocksOf
    <3>2. PICK j \in Sim!Positions : Holding(places[j], z)
      BY <1>1, <1>2, <1>7, <2>1, <3>1 DEF Recent
    <3>3. ~ (i < j)
      BY <1>1, <1>2, <1>7, <3>1, <3>2 DEF Recent
    <3>4. i # j
      BY <1>1, <1>7, <3>1, <3>2, OneBlock
    <3>5. j \in 1 .. i - 1
      BY <3>3, <3>4, InputAssumption DEF Sim!Positions
    <3> QED
      BY <3>2, <3>5
  <2>3. 1 .. i - 1 \subseteq Sim!Positions /\ Cardinality(1 .. i - 1) = i - 1 /\ i \in 1 .. E
    BY InputAssumption, FS_Interval DEF Sim!Positions
  <2>4. Cardinality(newer) <= i - 1 /\ Cardinality(newer) \in Nat
    BY <1>3, <1>4, <2>2, <2>3, FewerThanPlaces, FS_CardinalityType
  <2> QED
    BY <2>1, <2>3, <2>4, InputAssumption
<1>8. ASSUME last[y] > 0, \A i \in Sim!Positions : ~ Holding(places[i], y)
      PROVE  ~ (Cardinality(newer) < E)
  <2>1. ASSUME NEW i \in Sim!Positions
        PROVE  \E z \in newer : Holding(places[i], z)
    <3>1. places[i].valid /\ \A z \in BlocksOf(x) : Holding(places[i], z) => last[y] < last[z]
      BY <1>1, <1>2, <1>8 DEF Recent
    <3>2. PICK z \in BlocksOf(x) : Holding(places[i], z)
      BY <1>2, <3>1 DEF Recent
    <3>3. z \in newer
      BY <1>3, <3>1, <3>2 DEF newer, BlocksOf
    <3> QED
      BY <3>2, <3>3
  <2>2. Cardinality(Sim!Positions) <= Cardinality(newer) /\ Cardinality(newer) \in Nat
    BY <1>3, <1>4, <1>5, <2>1, FewerThanBlocks
  <2>3. Cardinality(Sim!Positions) = E
    BY InputAssumption, FS_Interval DEF Sim!Positions
  <2> QED
    BY <2>2, <2>3, InputAssumption
<1> QED
  BY <1>6, <1>7, <1>8 DEF places, x

\* A set is full when all its lines are in use.
LEMMA FullIsAllValid ==
  ASSUME ListsInv, LRUInv, NEW y \in Blocks
  PROVE  Sim!Abstract!Full(y) <=> \A i \in Sim!Positions : Listed[y % 2^s][i].valid
<1> DEFINE x == y % 2^s
           places == Listed[x]
           here == {z \in BlocksOf(x) : \E i \in Sim!Positions : Holding(places[i], z)}
           taken == {i \in Sim!Positions : places[i].valid}
<1>1. x \in Sim!Sets
  BY BlockTypes
<1>2. Recent(places, last, x)
  BY <1>1 DEF LRUInv
<1>3. \A i, j \in Sim!Positions : i < j /\ places[j].valid => places[i].tag # places[j].tag
  BY <1>1 DEF ListsInv, Sim!ListOrdered
<1>4. Sim!Abstract!Full(y) <=> Cardinality(here) = E
  <2>1. ASSUME NEW z \in BlocksOf(x)
        PROVE  Sim!Abstract!Resident(z) <=> \E i \in Sim!Positions : Holding(places[i], z)
    <3>1. z \in Blocks /\ z % 2^s = x
      BY DEF BlocksOf
    <3> QED
      BY <3>1, HeldIsResident
  <2>2. Sim!Abstract!SameSet(y) = BlocksOf(x)
    BY DEF Sim!Abstract!SameSet, BlocksOf, Blocks
  <2>3. {z \in Sim!Abstract!SameSet(y) : Sim!Abstract!Resident(z)} = here
    BY <2>1, <2>2
  <2> QED
    BY <2>3, SameCardinality DEF Sim!Abstract!Full
<1> HIDE DEF places, x
<1>5. \A i \in taken : \E z \in here : Holding(places[i], z)
  BY <1>2 DEF Recent
<1>6. \A z \in here : \E i \in taken : Holding(places[i], z)
  BY DEF Holding
<1>7. /\ taken \subseteq Sim!Positions /\ here \subseteq BlocksOf(x)
      /\ IsFiniteSet(Sim!Positions) /\ Cardinality(Sim!Positions) = E
  BY InputAssumption, FS_Interval DEF Sim!Positions
<1> HIDE DEF here, taken
<1>8. Cardinality(here) = Cardinality(taken)
  <2>1. /\ IsFiniteSet(here) /\ Cardinality(here) <= Cardinality(taken)
    BY <1>6, <1>7, FewerThanPlaces
  <2>2. Cardinality(taken) <= Cardinality(here)
        /\ Cardinality(taken) \in Nat /\ Cardinality(here) \in Nat
    BY <1>3, <1>5, <1>7, <2>1, FewerThanBlocks
  <2> QED
    BY <2>1, <2>2
<1>9. Cardinality(taken) = E <=> taken = Sim!Positions
  BY <1>7, FS_Subset
<1>10. taken = Sim!Positions <=> \A i \in Sim!Positions : places[i].valid
  BY DEF taken
<1> QED
  BY <1>4, <1>8, <1>9, <1>10 DEF places, x

\* An access is a hit or a miss of LRU.
LEMMA AccessUsesBlock ==
  ASSUME ListsInv, LRUInv, NEW addr \in Addr, Sim!access_cache(addr)
  PROVE  Sim!Abstract!Next
<1> DEFINE x == Sim!SetIdx(addr)
           tag == Sim!Tag(addr)
<1>1. PICK y : y = addr \div 2^b
  OBVIOUS
<1>2. y \in BlocksOf(x) /\ y \in Blocks /\ tag = y \div 2^s /\ x \in Sim!Sets /\ x = y % 2^s
  BY <1>1, BlockParts DEF BlocksOf
<1>3. PICK i \in Sim!Positions :
        /\ \A j \in Sim!Positions \ {i} : ~ (Listed[x][j].valid /\ Listed[x][j].tag = tag)
        /\ \/ /\ Listed[x][i].valid /\ Listed[x][i].tag = tag
              /\ hit_count' = hit_count + 1 /\ UNCHANGED <<miss_count, eviction_count>>
           \/ /\ ~ (Listed[x][i].valid /\ Listed[x][i].tag = tag)
              /\ miss_count' = miss_count + 1 /\ UNCHANGED hit_count
              /\ \/ ~ Listed[x][i].valid /\ UNCHANGED eviction_count
                 \/ /\ i = E /\ \A j \in Sim!Positions : Listed[x][j].valid
                    /\ eviction_count' = eviction_count + 1
  BY AccessTakesLine
<1>4. Sim!Abstract!Use(y)
  BY <1>1 DEF Sim!access_cache, Sim!Touch, Sim!Abstract!Use, Sim!Accesses
<1>5. Sim!Abstract!Resident(y) <=> \E j \in Sim!Positions : Holding(Listed[x][j], y)
  BY <1>2, HeldIsResident
<1>6. Sim!Abstract!Full(y) <=> \A j \in Sim!Positions : Listed[x][j].valid
  BY <1>2, FullIsAllValid
<1>7. CASE /\ Listed[x][i].valid /\ Listed[x][i].tag = tag
           /\ hit_count' = hit_count + 1 /\ UNCHANGED <<miss_count, eviction_count>>
  <2>1. Sim!Abstract!Hit(y)
    BY <1>2, <1>4, <1>5, <1>7 DEF Holding, Sim!Abstract!Hit
  <2> QED
    BY <1>2, <2>1 DEF Sim!Abstract!Next, Blocks
<1>8. CASE /\ ~ (Listed[x][i].valid /\ Listed[x][i].tag = tag)
           /\ miss_count' = miss_count + 1 /\ UNCHANGED hit_count
           /\ \/ ~ Listed[x][i].valid /\ UNCHANGED eviction_count
              \/ /\ i = E /\ \A j \in Sim!Positions : Listed[x][j].valid
                 /\ eviction_count' = eviction_count + 1
  <2>1. ~ Sim!Abstract!Resident(y)
    BY <1>2, <1>3, <1>5, <1>8 DEF Holding
  <2>2. eviction_count' = IF Sim!Abstract!Full(y) THEN eviction_count + 1 ELSE eviction_count
    BY <1>6, <1>8
  <2>3. Sim!Abstract!Miss(y)
    BY <1>4, <1>8, <2>1, <2>2 DEF Sim!Abstract!Miss
  <2> QED
    BY <1>2, <2>3 DEF Sim!Abstract!Next, Blocks
<1> QED
  BY <1>3, <1>7, <1>8

(***************************************************************************)
(* The simulator hits, misses and evicts when a cache that keeps the E     *)
(* blocks of each set that were used last does (csim.c:285-329).           *)
(***************************************************************************)
THEOREM KeepsBlocksUsedLast == Sim!Spec => Sim!LRUSpec
<1>1. Sim!Init => Sim!Abstract!Init
  BY DEF Sim!Init, Sim!Abstract!Init
<1>2. ASSUME ListsInv, LRUInv, [Sim!Next]_Sim!vars
      PROVE  LRUInv' /\ [Sim!Abstract!Next]_Sim!Abstract!vars
  <2>1. ASSUME NEW id \in {"L", "S", "M"}, NEW addr \in Addr, Sim!simulate(id, addr)
        PROVE  LRUInv' /\ Sim!Abstract!Next
    BY <1>2, <2>1, AccessKeepsRecent, AccessUsesBlock DEF Sim!simulate
  <2>2. CASE Sim!Modify
    <3>1. PICK addr \in Addr : addr = again
      BY <1>2, <2>2 DEF Sim!Modify, ListsInv, Sim!TypeOK
    <3>2. Sim!access_cache(addr)
      BY <2>2, <3>1 DEF Sim!Modify
    <3> QED
      BY <1>2, <3>2, AccessKeepsRecent, AccessUsesBlock
  <2>3. CASE UNCHANGED Sim!vars
    <3>1. Used' = Used /\ Listed' = Listed /\ last' = last
      BY <2>3 DEF Sim!vars, Used
    <3> QED
      BY <1>2, <2>3, <3>1 DEF Sim!vars, Sim!counts, LRUInv, Sim!Abstract!vars
  <2> QED
    BY <1>2, <2>1, <2>2, <2>3 DEF Sim!Next
<1> QED
  BY <1>1, <1>2, InitHolds, InitIsRecent, NextPreserves, PTL
  DEF Sim!Spec, Sim!LRUSpec, Sim!Abstract!Spec

-----------------------------------------------------------------------------
(***************************************************************************)
(* Through its pointers the simulator is a cache that keeps the blocks     *)
(* used last in each set: it hits, misses and evicts when such a cache     *)
(* does, for every trace, set count, associativity and block size.         *)
(***************************************************************************)
THEOREM CacheImplemented == Spec => CacheSpec
BY PointersAreLists, KeepsBlocksUsedLast, PTL DEF CacheSpec

(***************************************************************************)
(* The lines in use come before the others, each with a tag of its own, so *)
(* that tail->prev is the line used least recently (csim.c:316).           *)
(***************************************************************************)
THEOREM Ordered == Spec => []ListOrdered
BY PointersAreLists, ListsOrdered, PTL DEF ListOrdered

(***************************************************************************)
(* The second access of an M always hits (csim.c:354).                     *)
(***************************************************************************)
THEOREM ModifyAlwaysHits == Spec => ModifyHits
BY PointersAreLists, AgainHits, PTL DEF ModifyHits

=============================================================================
